---- MODULE Spec2Model ----
(***************************************************************************)
(* Model of the interactive force-directed cluster graph                   *)
(* (frontend/src/components/ForceDirectedCluster.tsx): the graph builder,  *)
(* the d3 force simulation as far as it touches pinned/unpinned positions, *)
(* the self-rescheduling render loop, the zoom/pan behaviour and the       *)
(* pointer handlers (drag, double-click, reset).                           *)
(*                                                                         *)
(* Coordinates are integers.  Math.cos/Math.sin/Math.sqrt results are      *)
(* rounded to the nearest integer in the two seed tables; distances are    *)
(* compared by their squares, which orders them as Math.sqrt does.         *)
(* A React state change, the re-render it causes and the build effect      *)
(* (cleanup of the previous effect, then the effect body) run in one       *)
(* task, so each of them is one action.                                    *)
(***************************************************************************)
EXTENDS Integers, Sequences, FiniteSets, TLC

\* ------------------------------------------------------------------------
\* Bounds of the model
\* ------------------------------------------------------------------------

\* number of simulation ticks explored after the simulation is (re)heated
MaxTicks == 1

\* number of interactions explored in one behaviour, counting the
\* resetLayout() calls, the node drags, the zoom/pan gestures, the clicks,
\* the hover moves and the changes of an input of the build (papers,
\* selection, density, size, theme)
MaxInteractions == 2

\* largest zoom scale explored (the scaleExtent allows up to 10)
MaxScale == 2

\* largest number of records of one cluster in the sampling specification
MaxCount == 10

\* largest number of records of one cluster in the link specification
MaxLinked == 7

\* ------------------------------------------------------------------------
\* Values
\* ------------------------------------------------------------------------

\* undefined / null of a number-valued field (x, y, fx, fy, cluster_id, ...)
Undef == -10000

\* `type NodeType = "cluster" | "paper"`
NodeType == {"cluster", "paper"}

\* useState({ width: 800, height: 600 })
InitialDimensions == [width |-> 800, height |-> 600]

\* a second canvas size, reported by getBoundingClientRect after a resize
ResizedDimensions == [width |-> 600, height |-> 400]

Dimensions == {InitialDimensions, ResizedDimensions}

\* useState(20)
InitialDensityPercent == 20

\* values of the density slider (min 1, max 100) explored by the model
Densities == {InitialDensityPercent, 50}

\* d3Zoom.zoomIdentity
ZoomIdentity == [x |-> 0, y |-> 0, k |-> 1]

\* the `clusters` prop: cluster_id values of the ClusterInfo records
Clusters == {1, 2}

\* the `papers` prop.  Paper 5 has no coordinates, paper 7 no cluster id,
\* one paper has the id 0.  The array is not ordered by id.
AllPapers ==
  << [id |-> 3, cluster_id |-> 1, x |-> 4, y |-> 0, z |-> 0],
     [id |-> 0, cluster_id |-> 1, x |-> 0, y |-> 0, z |-> 0],
     [id |-> 6, cluster_id |-> 2, x |-> 9, y |-> 9, z |-> 0],
     [id |-> 7, cluster_id |-> Undef, x |-> 2, y |-> 2, z |-> 0],
     [id |-> 2, cluster_id |-> 1, x |-> 1, y |-> 0, z |-> 0],
     [id |-> 5, cluster_id |-> 2, x |-> Undef, y |-> Undef, z |-> Undef] >>

\* the values the `papers` prop takes: the loaded records, or no records
PaperSets == {AllPapers, << >>}

\* the values the `selectedClusterIds` prop takes (empty = all selected)
Selections == {{}, {2}}

\* screen points the pointer visits besides the nodes themselves
FixedPoints == {<< 50, 50 >>}

\* camera translations a pan gesture ends at
PanOffsets == {<< 0, 0 >>, << 40, 20 >>}

\* ------------------------------------------------------------------------
\* Graph builder: pure part
\* ------------------------------------------------------------------------

\* Math.ceil(a / b) for a >= 0, b > 0
Ceil(a, b) == (a + b - 1) \div b

\* a filter that lets every record through
UnfilteredPapers(ps, sel) == ps

\* filteredPapers: records with a cluster id that is in the selection
FilteredPapers(ps, sel) ==
  SelectSeq(ps, LAMBDA p : /\ p.cluster_id # Undef
                           /\ (sel = {} \/ p.cluster_id \in sel))

\* papersByCluster.get(c) before sampling: the filtered records of cluster c,
\* in input order
ClusterPapers(ps, sel, c) ==
  SelectSeq(FilteredPapers(ps, sel), LAMBDA p : p.cluster_id = c)

\* clusterCountMap.get(c): number of input records of cluster c
ClusterCount(ps, c) ==
  Len(SelectSeq(ps, LAMBDA p : p.cluster_id = c))

\* a sampling that leaves the records in input order
NoSort(s) == s

RECURSIVE InsertById(_, _)
\* insert record p into the id-sorted sequence s, after the records whose id
\* is not greater (Array.prototype.sort is stable)
InsertById(s, p) ==
  IF s = << >> THEN << p >>
  ELSE IF p.id < Head(s).id THEN << p >> \o s
  ELSE << Head(s) >> \o InsertById(Tail(s), p)

RECURSIVE SortById(_)
\* clusterPapers.sort((a, b) => a.id - b.id)
SortById(s) ==
  IF s = << >> THEN << >>
  ELSE InsertById(SortById(SubSeq(s, 1, Len(s) - 1)), s[Len(s)])

\* a filter that keeps the leading records, as many as every step-th
TakeFirst(s, step, i) == SubSeq(s, 1, Ceil(Len(s), step))

RECURSIVE EveryNth(_, _, _)
\* .filter((_, index, arr) => index % Math.ceil(step) === 0), index 0-based;
\* i is the 0-based index of Head(s)
EveryNth(s, step, i) ==
  IF s = << >> THEN << >>
  ELSE (IF i % step = 0 THEN << Head(s) >> ELSE << >>)
       \o EveryNth(Tail(s), step, i + 1)

\* a sampling that rounds the target count down and keeps the leading
\* records
SamplePapersFloor(cp, density) ==
  SubSeq(cp, 1, (Len(cp) * density) \div 100)

\* the density sampling of one cluster's records
SamplePapers(cp, density) ==
  IF density < 100
  THEN LET targetCount == Ceil(Len(cp) * density, 100)
       IN  IF targetCount < Len(cp)
           THEN LET kept == EveryNth(SortById(cp),
                                     Ceil(Len(cp), targetCount), 0)
                IN  SubSeq(kept, 1, IF Len(kept) < targetCount
                                    THEN Len(kept) ELSE targetCount)
           ELSE cp
  ELSE cp

RECURSIVE Distinct(_, _)
\* the elements of s in order of first appearance, skipping those in seen
Distinct(s, seen) ==
  IF s = << >> THEN << >>
  ELSE IF Head(s) \in seen THEN Distinct(Tail(s), seen)
  ELSE << Head(s) >> \o Distinct(Tail(s), seen \cup {Head(s)})

\* Array.from(papersByCluster.keys()): cluster ids in insertion order
VisibleClusterIds(ps, sel) ==
  LET f == FilteredPapers(ps, sel)
  IN  Distinct([i \in 1..Len(f) |-> f[i].cluster_id], {})

\* `cluster-${clusterId}`
ClusterNodeId(c) == << "cluster", c >>

\* an item node id that has the form of a cluster node id
ClusterStyleId(p) == << "cluster", p >>

\* `paper-${paper.id}`
PaperNodeId(p) == << "paper", p >>

\* a builder without a position cache: no node has a previous position
HasNoPreviousPosition(prev, id) == FALSE

\* previousPositions.has(id): a node of the previous list with a position
HasPreviousPosition(prev, id) ==
  \E i \in 1..Len(prev) :
     prev[i].id = id /\ prev[i].x # Undef /\ prev[i].y # Undef

\* previousPositions.get(id): x, y, fx, fy of the node with that id (the
\* last one in the list, as Map.set overwrites)
PreviousPosition(prev, id) ==
  LET i == CHOOSE j \in 1..Len(prev) :
              /\ prev[j].id = id /\ prev[j].x # Undef /\ prev[j].y # Undef
              /\ \A m \in (j + 1)..Len(prev) :
                    ~(prev[m].id = id /\ prev[m].x # Undef
                                      /\ prev[m].y # Undef)
  IN  [x |-> prev[i].x, y |-> prev[i].y, fx |-> prev[i].fx, fy |-> prev[i].fy]

\* Math.cos(angle) * 30 and Math.sin(angle) * 30 for
\* angle = (index / n) * 2 * PI, rounded; index is 0-based
SpiralOffset(index, n) ==
  LET table ==
        << << <<30, 0>> >>,
           << <<30, 0>>, <<-30, 0>> >>,
           << <<30, 0>>, <<-15, 26>>, <<-15, -26>> >>,
           << <<30, 0>>, <<0, 30>>, <<-30, 0>>, <<0, -30>> >>,
           << <<30, 0>>, <<9, 29>>, <<-24, 18>>, <<-24, -18>>, <<9, -29>> >>,
           << <<30, 0>>, <<15, 26>>, <<-15, 26>>, <<-30, 0>>, <<-15, -26>>,
              <<15, -26>> >>,
           << <<30, 0>>, <<19, 23>>, <<-7, 29>>, <<-27, 13>>, <<-27, -13>>,
              <<-7, -29>>, <<19, -23>> >>,
           << <<30, 0>>, <<21, 21>>, <<0, 30>>, <<-21, 21>>, <<-30, 0>>,
              <<-21, -21>>, <<0, -30>>, <<21, -21>> >>,
           << <<30, 0>>, <<23, 19>>, <<5, 30>>, <<-15, 26>>, <<-28, 10>>,
              <<-28, -10>>, <<-15, -26>>, <<5, -30>>, <<23, -19>> >>,
           << <<30, 0>>, <<24, 18>>, <<9, 29>>, <<-9, 29>>, <<-24, 18>>,
              <<-30, 0>>, <<-24, -18>>, <<-9, -29>>, <<9, -29>>,
              <<24, -18>> >>,
           << <<30, 0>>, <<25, 16>>, <<12, 27>>, <<-4, 30>>, <<-20, 23>>,
              <<-29, 8>>, <<-29, -8>>, <<-20, -23>>, <<-4, -30>>,
              <<12, -27>>, <<25, -16>> >> >>
  IN  table[n][index + 1]

\* the paper nodes of an expanded cluster, before the simulation sees them
PaperNodes(c, cp, prev, dims) ==
  LET hasC  == HasPreviousPosition(prev, ClusterNodeId(c))
      baseX == IF hasC THEN PreviousPosition(prev, ClusterNodeId(c)).x
               ELSE dims.width \div 2
      baseY == IF hasC THEN PreviousPosition(prev, ClusterNodeId(c)).y
               ELSE dims.height \div 2
  IN  [i \in 1..Len(cp) |->
         LET id  == PaperNodeId(cp[i].id)
             has == HasPreviousPosition(prev, id)
             pp  == PreviousPosition(prev, id)
             off == SpiralOffset(i - 1, Len(cp))
         IN  [id |-> id, type |-> "paper", clusterId |-> cp[i].cluster_id,
              paperCount |-> Undef, paperId |-> cp[i].id,
              x  |-> IF has THEN pp.x ELSE baseX + off[1],
              y  |-> IF has THEN pp.y ELSE baseY + off[2],
              fx |-> IF has THEN pp.fx ELSE Undef,
              fy |-> IF has THEN pp.fy ELSE Undef]]

\* a cluster node that counts the nodes of the previous list as well
ClusterNodeCountingPrevious(c, cp, prev) ==
  [id |-> ClusterNodeId(c), type |-> "cluster", clusterId |-> c,
   paperCount |-> Len(cp) + Len(prev), paperId |-> Undef,
   x |-> Undef, y |-> Undef, fx |-> Undef, fy |-> Undef]

\* the cluster node of an unexpanded cluster, before the simulation sees it
ClusterNode(c, cp, prev) ==
  LET id  == ClusterNodeId(c)
      has == HasPreviousPosition(prev, id)
      pp  == PreviousPosition(prev, id)
  IN  [id |-> id, type |-> "cluster", clusterId |-> c,
       paperCount |-> Len(cp), paperId |-> Undef,
       x  |-> IF has THEN pp.x ELSE Undef,
       y  |-> IF has THEN pp.y ELSE Undef,
       fx |-> IF has THEN pp.fx ELSE Undef,
       fy |-> IF has THEN pp.fy ELSE Undef]

\* a builder that pushes the cluster node of an expanded cluster as well
NodesOfClusterBoth(c, cp, expanded, prev, dims) ==
  << ClusterNode(c, cp, prev) >>
    \o (IF c \in expanded THEN PaperNodes(c, cp, prev, dims) ELSE << >>)

\* the body of visibleClusterIds.forEach: the nodes pushed for cluster c with
\* sampled records cp (`if (isExpanded) { ... } else { ... }`)
NodesOfCluster(c, cp, expanded, prev, dims) ==
  IF c \in expanded
  THEN PaperNodes(c, cp, prev, dims)
  ELSE << ClusterNode(c, cp, prev) >>

RECURSIVE BuildNodes(_, _, _, _, _, _, _)
\* visibleClusterIds.forEach(...): the nodes pushed for the cluster ids vis
BuildNodes(vis, ps, sel, density, expanded, dims, prev) ==
  IF vis = << >> THEN << >>
  ELSE LET c  == Head(vis)
           cp == SamplePapers(ClusterPapers(ps, sel, c), density)
       IN  NodesOfCluster(c, cp, expanded, prev, dims)
           \o BuildNodes(Tail(vis), ps, sel, density, expanded, dims, prev)

\* d3 forceSimulation(nodes) initialises the nodes it is given: a pinned
\* node is put on its pin, a node without a position is placed on the
\* phyllotaxis spiral (radius 10 * sqrt(0.5 + i), angle i * PI * (3 - sqrt 5),
\* rounded) by its index i (0-based)
PhyllotaxisSeed(i) ==
  LET table == << <<7, 0>>, <<-9, 8>>, <<1, -16>>, <<11, 15>>, <<-21, -4>>,
                  <<20, -13>>, <<-7, 25>>, <<-13, -24>>, <<27, 10>>,
                  <<-28, 12>>, <<14, -29>>, <<10, 32>>, <<-31, -18>>,
                  <<36, -8>> >>
  IN  table[i + 1]

InitializeNodes(ns) ==
  [i \in 1..Len(ns) |->
     LET n  == ns[i]
         x1 == IF n.fx # Undef THEN n.fx ELSE n.x
         y1 == IF n.fy # Undef THEN n.fy ELSE n.y
         nan == x1 = Undef \/ y1 = Undef
     IN  [n EXCEPT !.x = IF nan THEN PhyllotaxisSeed(i - 1)[1] ELSE x1,
                   !.y = IF nan THEN PhyllotaxisSeed(i - 1)[2] ELSE y1]]

\* ------------------------------------------------------------------------
\* Graph builder: k-nearest-neighbour links
\* ------------------------------------------------------------------------

\* const k = 5
K == 5

\* `paper.x ?? 0`
OrZero(v) == IF v = Undef THEN 0 ELSE v

\* dx * dx + dy * dy + dz * dz of two records (the square of `distance`)
Distance2(a, b) ==
  LET dx == OrZero(a.x) - OrZero(b.x)
      dy == OrZero(a.y) - OrZero(b.y)
      dz == OrZero(a.z) - OrZero(b.z)
  IN  dx * dx + dy * dy + dz * dz

RECURSIVE InsertByDistance(_, _)
\* insert e into the distance-sorted sequence s, after the entries that are
\* not farther (stable sort)
InsertByDistance(s, e) ==
  IF s = << >> THEN << e >>
  ELSE IF e.distance < Head(s).distance THEN << e >> \o s
  ELSE << Head(s) >> \o InsertByDistance(Tail(s), e)

RECURSIVE SortByDistance(_)
\* distances.sort((a, b) => a.distance - b.distance)
SortByDistance(s) ==
  IF s = << >> THEN << >>
  ELSE InsertByDistance(SortByDistance(SubSeq(s, 1, Len(s) - 1)), s[Len(s)])

\* a neighbour choice that takes the leading other records of the list
FirstNeighbors(cp, nodeIndex) ==
  LET others == SelectSeq([j \in 1..Len(cp) |-> j], LAMBDA j : j # nodeIndex)
  IN  SubSeq(others, 1, IF Len(others) < K THEN Len(others) ELSE K)

\* nearestNeighbors of the record at position nodeIndex of cp: the positions
\* of the k nearest other records
NearestNeighbors(cp, nodeIndex) ==
  LET others    == SelectSeq([j \in 1..Len(cp) |-> j],
                             LAMBDA j : j # nodeIndex)
      distances == [m \in 1..Len(others) |->
                      [index |-> others[m],
                       distance |-> Distance2(cp[nodeIndex], cp[others[m]])]]
      sorted    == SortByDistance(distances)
      nearest   == SubSeq(sorted, 1, IF Len(sorted) < K THEN Len(sorted) ELSE K)
  IN  [m \in 1..Len(nearest) |-> nearest[m].index]

\* a duplicate test that knows a link in its pushed direction only
LinkExistsDirected(ls, a, b) ==
  \E m \in 1..Len(ls) : ls[m].source = a /\ ls[m].target = b

\* links.some(...): the link a-b or b-a is in ls
LinkExists(ls, a, b) ==
  \E m \in 1..Len(ls) :
     \/ (ls[m].source = a /\ ls[m].target = b)
     \/ (ls[m].source = b /\ ls[m].target = a)

RECURSIVE AddNeighborLinks(_, _, _, _)
\* nearestNeighbors.forEach(...): push the links of one node to its
\* neighbours nbrs that are not in ls yet
AddNeighborLinks(ls, cp, nodeIndex, nbrs) ==
  IF nbrs = << >> THEN ls
  ELSE LET a == PaperNodeId(cp[nodeIndex].id)
           b == PaperNodeId(cp[Head(nbrs)].id)
       IN  IF LinkExists(ls, a, b)
           THEN AddNeighborLinks(ls, cp, nodeIndex, Tail(nbrs))
           ELSE AddNeighborLinks(Append(ls, [source |-> a, target |-> b]),
                                 cp, nodeIndex, Tail(nbrs))

RECURSIVE ClusterLinks(_, _, _)
\* paperNodesInCluster.forEach(...): the links list after the nodes at
\* positions nodeIndex.. of one expanded cluster have added theirs
ClusterLinks(ls, cp, nodeIndex) ==
  IF nodeIndex > Len(cp) THEN ls
  ELSE ClusterLinks(
         AddNeighborLinks(ls, cp, nodeIndex, NearestNeighbors(cp, nodeIndex)),
         cp, nodeIndex + 1)

RECURSIVE BuildLinks(_, _, _, _, _, _)
\* the links pushed for the cluster ids vis, starting from the list ls
BuildLinks(ls, vis, ps, sel, density, expanded) ==
  IF vis = << >> THEN ls
  ELSE LET c  == Head(vis)
           cp == SamplePapers(ClusterPapers(ps, sel, c), density)
       IN  BuildLinks(IF c \in expanded THEN ClusterLinks(ls, cp, 1) ELSE ls,
                      Tail(vis), ps, sel, density, expanded)

\* the node list and the link list one run of the build effect produces
Build(ps, sel, density, expanded, dims, prev) ==
  LET vis == VisibleClusterIds(ps, sel)
  IN  [nodes |-> InitializeNodes(
                   BuildNodes(vis, ps, sel, density, expanded, dims, prev)),
       links |-> BuildLinks(<< >>, vis, ps, sel, density, expanded)]

\* ------------------------------------------------------------------------
\* Camera transform and hit-testing
\* ------------------------------------------------------------------------

\* no point / no node
NoPoint == << Undef, Undef >>
NoNode == 0

\* the simulation-space point of screen point p:
\* ((x - transform.x) / transform.k, (y - transform.y) / transform.k)
ToSim(t, p) == << (p[1] - t.x) \div t.k, (p[2] - t.y) \div t.k >>

\* the screen point of simulation-space point q (translate, then scale)
ToScreen(t, q) == << q[1] * t.k + t.x, q[2] * t.k + t.y >>

\* `node.type === "cluster" ? 15 : 5`
Radius(n) == IF n.type = "cluster" THEN 15 ELSE 5

\* `dist < radius + 5` for node n and simulation-space point q
Hit(n, q) ==
  /\ n.x # Undef
  /\ n.y # Undef
  /\ (n.x - q[1]) * (n.x - q[1]) + (n.y - q[2]) * (n.y - q[2])
       < (Radius(n) + 5) * (Radius(n) + 5)

\* a hit test that keeps the last node hit by screen point p
FindLastNodeAtPosition(ns, t, p) ==
  IF \E i \in 1..Len(ns) : Hit(ns[i], ToSim(t, p))
  THEN CHOOSE i \in 1..Len(ns) :
          /\ Hit(ns[i], ToSim(t, p))
          /\ \A j \in (i + 1)..Len(ns) : ~Hit(ns[j], ToSim(t, p))
  ELSE NoNode

\* the position in ns of the first node hit by screen point p, or NoNode:
\* the loop `for (const node of nodes) { ... break; }` of the handlers
FindNodeAtPosition(ns, t, p) ==
  IF \E i \in 1..Len(ns) : Hit(ns[i], ToSim(t, p))
  THEN CHOOSE i \in 1..Len(ns) :
          /\ Hit(ns[i], ToSim(t, p))
          /\ \A j \in 1..(i - 1) : ~Hit(ns[j], ToSim(t, p))
  ELSE NoNode

\* ------------------------------------------------------------------------
\* State
\* ------------------------------------------------------------------------

VARIABLES
  mounted,             \* the component is mounted
  papers,              \* prop `papers`
  selectedClusterIds,  \* prop `selectedClusterIds`
  isDarkTheme,         \* useTheme().isDarkTheme
  dimensions,          \* state `dimensions`
  expandedClusters,    \* state `expandedClusters`
  densityPercent,      \* state `densityPercent`
  resetTrigger,        \* state `resetTrigger`
  nodes,               \* nodesRef.current (the node objects, in build order)
  links,               \* linksRef.current
  simulation,          \* simulationRef.current: created, ticks left before
                       \* alpha < alphaMin, and whether the array it
                       \* integrates is nodesRef.current
  transform,           \* transformRef.current
  isDragging,          \* isDraggingRef.current
  draggedNode,         \* draggedNodeRef.current: the id of the node object
                       \* and whether that object is in nodesRef.current
  gesture,             \* the active gesture of the d3 zoom behaviour
  pressed,             \* the mouse button is held down
  pendingFrames,       \* requested render() callbacks: whether the `nodes`
                       \* of the closure is nodesRef.current, and whether
                       \* the request id is animationFrameRef.current
  canvas,              \* what the last draw() painted
  gestures,            \* history: number of zoom/pan gestures so far
  drags,               \* history: number of node drags so far
  inputChanges,        \* history: number of input changes so far
  lastDragged,         \* history: the id of the node of the list the user
                       \* pressed or dragged last, the screen point of that
                       \* event, the position it pinned the node at, whether
                       \* the pointer moved, and resetTrigger then
  lastExpand,          \* history: the cluster node the last double-click
                       \* expanded, and whether the next one collapsed it
  listeners,           \* the event listeners the effects have registered
  hoverFrame,          \* the throttled hover callback (rafId of the hover
                       \* effect): the point of its mousemove event, or none
  hoveredNode,         \* hoveredNodeRef.current: the id of the node object
  cursorStyle,         \* state `cursorStyle`: the cursor over the canvas
  opened,              \* output: the ids onPaperClick was called with
  clicks,              \* history: number of click events so far
  hovers,              \* history: number of hover mousemove events so far
  lastClick            \* history: the point and modifier of the click
                       \* event handled in the last step, if any

inputs == << papers, selectedClusterIds, isDarkTheme, dimensions,
             densityPercent >>
graph == << nodes, links, simulation, pendingFrames, canvas >>
drag == << isDragging, draggedNode, pressed >>
history == << gestures, drags, inputChanges, lastDragged, lastExpand >>
events == << listeners, hoverFrame, hoveredNode, cursorStyle, opened, clicks,
            hovers >>
vars == << mounted, inputs, expandedClusters, resetTrigger, graph, transform,
           drag, gesture, history, events, lastClick >>

\* the ids a node can have
NodeIds ==
  {ClusterNodeId(c) : c \in Clusters}
    \cup {PaperNodeId(AllPapers[i].id) : i \in 1..Len(AllPapers)}

NoDrag == [id |-> << "none", 0 >>, live |-> FALSE]
NoGesture == [kind |-> "none", anchor |-> NoPoint, onNode |-> FALSE]
NoExpand == [clusterId |-> Undef, paperCount |-> Undef, collapsed |-> FALSE]
NoSimulation == [created |-> FALSE, ticks |-> 0, current |-> FALSE,
                 center |-> << 0, 0 >>]
BlankCanvas == [nodeIds |-> << >>, nodesCurrent |-> TRUE,
                linksCurrent |-> TRUE, byFrame |-> FALSE]
NeverDragged == [id |-> << "none", 0 >>, screen |-> NoPoint, at |-> NoPoint,
                 moved |-> FALSE, resets |-> 0]
NoHover == << "none", 0 >>
NoClick == [point |-> NoPoint, modifier |-> FALSE]

\* the listeners the effects register: the resize listener on the window,
\* the zoom behaviour's listeners (".zoom"), and the hover, click,
\* double-click and drag listeners on the canvas
AllListeners ==
  {"resize", "zoom", "hover.mousemove", "click", "dblclick", "mousedown",
   "mousemove", "mouseup", "mouseleave"}

\* ------------------------------------------------------------------------
\* The build effect
\* ------------------------------------------------------------------------

\* draw() of a render closure: `fresh` says whether the closure's `nodes` is
\* nodesRef.current ns; the links are read through linksRef.current
Draw(ns, fresh, linksFromBuild, byFrame) ==
  [nodeIds |-> IF fresh THEN [i \in 1..Len(ns) |-> ns[i].id] ELSE << >>,
   nodesCurrent |-> fresh,
   linksCurrent |-> linksFromBuild,
   byFrame |-> byFrame]

\* a cleanup that cancels no frame
CancelNothing(frames) == frames

\* the cleanup returned by the previous run of the build effect:
\* cancelAnimationFrame(animationFrameRef.current)
CancelAnimationFrame(frames) == {f \in frames : ~f.isRef}

\* requestAnimationFrame(render) of a closure, stored in animationFrameRef
RequestAnimationFrame(frames, fresh) ==
  {[f EXCEPT !.isRef = FALSE] : f \in frames}
     \cup {[fresh |-> fresh, isRef |-> TRUE]}

\* One run of the build effect: the cleanup of the previous run (if that
\* run got past its early return), then the effect body with the new
\* inputs.  prevN, prevL are nodesRef.current and linksRef.current when the
\* effect starts.
BuildEffect(ps, sel, dens, exp, dims, prevN, prevL, sim, frames, canv, had) ==
  LET stopped   == IF had THEN [sim EXCEPT !.ticks = 0] ELSE sim
      cancelled == IF had THEN CancelAnimationFrame(frames) ELSE frames
  IN  IF ps = << >> \/ Clusters = {}
      THEN [built |-> FALSE, nodes |-> prevN, links |-> prevL,
            simulation |-> stopped, pendingFrames |-> cancelled,
            canvas |-> canv]
      ELSE LET b == Build(ps, sel, dens, exp, dims, prevN)
           IN  [built |-> TRUE, nodes |-> b.nodes, links |-> b.links,
                simulation |-> [created |-> TRUE, ticks |-> MaxTicks,
                                current |-> TRUE,
                                center |-> << dims.width \div 2,
                                              dims.height \div 2 >>],
                pendingFrames |->
                  RequestAnimationFrame(
                    {[f EXCEPT !.fresh = FALSE] : f \in cancelled}, TRUE),
                canvas |-> Draw(b.nodes, TRUE, TRUE, FALSE)]

\* the re-render after a state or prop change: the build effect runs with
\* the new (primed) inputs; every node object of the previous list is
\* replaced, so a node held by draggedNodeRef is no longer in the list
Rebuild(prevN, prevL, refsCleared) ==
  LET r == BuildEffect(papers', selectedClusterIds', densityPercent',
                       expandedClusters', dimensions', prevN, prevL,
                       IF refsCleared
                       THEN [simulation EXCEPT !.current = FALSE]
                       ELSE simulation,
                       pendingFrames, canvas, papers # << >>)
  IN  /\ nodes' = r.nodes
      /\ links' = r.links
      /\ simulation' = r.simulation
      /\ pendingFrames' = r.pendingFrames
      /\ canvas' = r.canvas
      /\ draggedNode' = IF (r.built \/ refsCleared) /\ draggedNode # NoDrag
                        THEN [draggedNode EXCEPT !.live = FALSE]
                        ELSE draggedNode

\* the interactions counted so far are fewer than the model explores
Explored ==
  resetTrigger + drags + gestures + inputChanges + clicks + hovers
    < MaxInteractions

\* the state after the component has mounted with the records ps and its
\* effects have run, with the density slider at d
MountedWith(ps, d) ==
  /\ mounted = TRUE
  /\ papers = ps
  /\ selectedClusterIds = {}
  /\ isDarkTheme = FALSE
  /\ dimensions = InitialDimensions
  /\ expandedClusters = {}
  /\ densityPercent = d
  /\ resetTrigger = 0
  /\ transform = ZoomIdentity
  /\ isDragging = FALSE
  /\ draggedNode = NoDrag
  /\ gesture = NoGesture
  /\ pressed = FALSE
  /\ gestures = 0
  /\ drags = 0
  /\ inputChanges = 0
  /\ lastDragged = NeverDragged
  /\ lastExpand = NoExpand
  /\ listeners = AllListeners
  /\ hoverFrame = NoPoint
  /\ hoveredNode = NoHover
  /\ cursorStyle = "grab"
  /\ opened = << >>
  /\ clicks = 0
  /\ hovers = 0
  /\ lastClick = NoClick
  /\ LET r == BuildEffect(ps, {}, d, {}, InitialDimensions, << >>, << >>,
                          NoSimulation, {}, BlankCanvas, FALSE)
     IN  /\ nodes = r.nodes
         /\ links = r.links
         /\ simulation = r.simulation
         /\ pendingFrames = r.pendingFrames
         /\ canvas = r.canvas

\* the state after the component has mounted and its effects have run
Init == MountedWith(AllPapers, InitialDensityPercent)

\* ------------------------------------------------------------------------
\* Changes of props and state that re-run the build effect
\* ------------------------------------------------------------------------

\* the parent passes a new `papers` array
SetPapers(ps) ==
  /\ mounted
  /\ Explored
  /\ inputChanges' = inputChanges + 1
  /\ ps # papers
  /\ papers' = ps
  /\ lastExpand' = NoExpand
  /\ UNCHANGED << mounted, selectedClusterIds, isDarkTheme, dimensions,
                  densityPercent, expandedClusters, resetTrigger, transform,
                  isDragging, pressed, gesture, gestures, drags, lastDragged >>
  /\ Rebuild(nodes, links, FALSE)
  /\ UNCHANGED events
  /\ lastClick' = NoClick

\* the parent passes a new `selectedClusterIds` set
SetSelection(sel) ==
  /\ mounted
  /\ Explored
  /\ inputChanges' = inputChanges + 1
  /\ sel # selectedClusterIds
  /\ selectedClusterIds' = sel
  /\ lastExpand' = NoExpand
  /\ UNCHANGED << mounted, papers, isDarkTheme, dimensions, densityPercent,
                  expandedClusters, resetTrigger, transform, isDragging,
                  pressed, gesture, gestures, drags, lastDragged >>
  /\ Rebuild(nodes, links, FALSE)
  /\ UNCHANGED events
  /\ lastClick' = NoClick

\* Slider onValueChange: setDensityPercent(value)
SetDensity(d) ==
  /\ mounted
  /\ Explored
  /\ inputChanges' = inputChanges + 1
  /\ d # densityPercent
  /\ densityPercent' = d
  /\ lastExpand' = NoExpand
  /\ UNCHANGED << mounted, papers, selectedClusterIds, isDarkTheme,
                  dimensions, expandedClusters, resetTrigger, transform,
                  isDragging, pressed, gesture, gestures, drags, lastDragged >>
  /\ Rebuild(nodes, links, FALSE)
  /\ UNCHANGED events
  /\ lastClick' = NoClick

\* window "resize": updateDimensions -> setDimensions
Resize(dims) ==
  /\ mounted
  /\ Explored
  /\ inputChanges' = inputChanges + 1
  /\ dims # dimensions
  /\ dimensions' = dims
  /\ lastExpand' = NoExpand
  /\ UNCHANGED << mounted, papers, selectedClusterIds, isDarkTheme,
                  densityPercent, expandedClusters, resetTrigger, transform,
                  isDragging, pressed, gesture, gestures, drags, lastDragged >>
  /\ Rebuild(nodes, links, FALSE)
  /\ UNCHANGED events
  /\ lastClick' = NoClick

\* a theme change that collapses the expanded clusters
ToggleThemeCollapses ==
  /\ mounted
  /\ Explored
  /\ inputChanges' = inputChanges + 1
  /\ isDarkTheme' = ~isDarkTheme
  /\ expandedClusters' = {}
  /\ lastExpand' = NoExpand
  /\ UNCHANGED << mounted, papers, selectedClusterIds, dimensions,
                  densityPercent, resetTrigger, transform, isDragging,
                  pressed, gesture, gestures, drags, lastDragged >>
  /\ Rebuild(nodes, links, FALSE)
  /\ UNCHANGED events
  /\ lastClick' = NoClick

\* the theme is toggled: isDarkTheme is a dependency of the build effect
ToggleTheme ==
  /\ mounted
  /\ Explored
  /\ inputChanges' = inputChanges + 1
  /\ isDarkTheme' = ~isDarkTheme
  /\ lastExpand' = NoExpand
  /\ UNCHANGED << mounted, papers, selectedClusterIds, dimensions,
                  densityPercent, expandedClusters, resetTrigger, transform,
                  isDragging, pressed, gesture, gestures, drags, lastDragged >>
  /\ Rebuild(nodes, links, FALSE)
  /\ UNCHANGED events
  /\ lastClick' = NoClick

\* a reset that leaves nodesRef.current and linksRef.current as they are
ResetLayoutKeepsNodes ==
  /\ mounted
  /\ Explored
  /\ expandedClusters' = {}
  /\ transform' = ZoomIdentity
  /\ resetTrigger' = resetTrigger + 1
  /\ lastExpand' = NoExpand
  /\ UNCHANGED << mounted, inputs, isDragging, pressed, gesture, gestures,
                  drags, inputChanges, lastDragged >>
  /\ Rebuild(nodes, links, FALSE)
  /\ UNCHANGED events
  /\ lastClick' = NoClick

\* handleResetLayout, and the re-render its two state updates cause
ResetLayout ==
  /\ mounted
  /\ Explored
  /\ expandedClusters' = {}
  /\ transform' = ZoomIdentity
  /\ resetTrigger' = resetTrigger + 1
  /\ lastExpand' = NoExpand
  /\ UNCHANGED << mounted, inputs, isDragging, pressed, gesture, gestures,
                  drags, inputChanges, lastDragged >>
  /\ Rebuild(<< >>, << >>, TRUE)
  /\ UNCHANGED events
  /\ lastClick' = NoClick

\* ------------------------------------------------------------------------
\* Pointer events: double-click, zoom behaviour and node dragging
\* ------------------------------------------------------------------------

\* the pointer position maps to simulation space without rounding
Exact(t, p) == (p[1] - t.x) % t.k = 0 /\ (p[2] - t.y) % t.k = 0

\* the screen point is on the canvas
InCanvas(p) ==
  /\ 0 <= p[1] /\ p[1] <= dimensions.width
  /\ 0 <= p[2] /\ p[2] <= dimensions.height

\* the screen points at which the user aims at nodes: their centres
NodePoints ==
  {ToScreen(transform, << nodes[i].x, nodes[i].y >>) : i \in 1..Len(nodes)}

\* the screen points of pointer events on the canvas
PointerPoints ==
  {p \in FixedPoints \cup NodePoints : Exact(transform, p) /\ InCanvas(p)}

\* the screen points at which a touch or wheel gesture starts and to which
\* the pointer moves while no button is held: empty space,
\* or the first node of the list
GesturePoints ==
  {p \in FixedPoints
          \cup {ToScreen(transform, << nodes[i].x, nodes[i].y >>) :
                  i \in 1..(IF nodes = << >> THEN 0 ELSE 1)} :
     Exact(transform, p) /\ InCanvas(p)}

\* an updater that only ever adds the cluster id of a cluster node
ExpandOnly(prev, n) ==
  IF n.type = "cluster" THEN prev \cup {n.clusterId}
  ELSE prev \ {n.clusterId}

\* the updater handleDoubleClick passes to setExpandedClusters for the node
\* n it hit: "Toggle cluster expansion" for a cluster node, "Collapse the
\* cluster" for any other node
ToggleClusterExpansion(prev, n) ==
  IF n.type = "cluster"
  THEN IF n.clusterId \in prev
       THEN prev \ {n.clusterId}
       ELSE prev \cup {n.clusterId}
  ELSE prev \ {n.clusterId}

\* handleDoubleClick at screen point p, and the re-render it causes
DoubleClick(p) ==
  /\ mounted
  /\ ~pressed
  /\ gesture.kind = "none"
  /\ Exact(transform, p)
  /\ InCanvas(p)
  /\ LET hit == FindNodeAtPosition(nodes, transform, p)
     IN  IF hit = NoNode
         THEN UNCHANGED << mounted, inputs, expandedClusters, resetTrigger,
                           graph, transform, drag, gesture, history >>
         ELSE /\ expandedClusters' =
                   ToggleClusterExpansion(expandedClusters, nodes[hit])
              /\ lastExpand' =
                   IF nodes[hit].type = "cluster"
                      /\ nodes[hit].clusterId \notin expandedClusters
                   THEN [clusterId |-> nodes[hit].clusterId,
                         paperCount |-> nodes[hit].paperCount,
                         collapsed |-> FALSE]
                   ELSE IF nodes[hit].type = "paper"
                           /\ nodes[hit].clusterId = lastExpand.clusterId
                           /\ ~lastExpand.collapsed
                   THEN [lastExpand EXCEPT !.collapsed = TRUE]
                   ELSE NoExpand
              /\ UNCHANGED << mounted, inputs, resetTrigger, transform,
                              isDragging, pressed, gesture, gestures, drags,
                              inputChanges, lastDragged >>
              /\ Rebuild(nodes, links, FALSE)
  /\ UNCHANGED events
  /\ lastClick' = NoClick

\* event.clientX / event.clientY as the zoom filter reads them: a TouchEvent
\* has no clientX and clientY of its own
ClientPoint(type, p) == IF type = "touchstart" THEN NoPoint ELSE p

\* the .filter(...) of the zoom behaviour: TRUE lets d3 zoom take the event
ZoomFilter(type, p) ==
  IF type = "dblclick" THEN FALSE
  ELSE IF isDragging THEN FALSE
  ELSE IF type \in {"mousedown", "touchstart"}
          /\ FindNodeAtPosition(nodes, transform, ClientPoint(type, p))
               # NoNode
       THEN FALSE
  ELSE TRUE

\* d3 zoom changes the scale to k and keeps the simulation point `anchor`
\* under screen point p
ZoomTo(k, p, anchor) ==
  [x |-> p[1] - anchor[1] * k, y |-> p[2] - anchor[2] * k, k |-> k]

\* a handleMouseDown that starts the drag and leaves the pin to the first
\* mousemove
StartDragWithoutPin(p) ==
  LET hit == FindNodeAtPosition(nodes, transform, p)
  IN  IF hit = NoNode
      THEN UNCHANGED << nodes, isDragging, draggedNode, lastDragged,
                        cursorStyle >>
      ELSE /\ isDragging' = TRUE
           /\ cursorStyle' = "grabbing"
           /\ draggedNode' = [id |-> nodes[hit].id, live |-> TRUE]
           /\ nodes' = nodes
           /\ lastDragged' = [id |-> nodes[hit].id, screen |-> p,
                              at |-> << nodes[hit].x, nodes[hit].y >>,
                              moved |-> FALSE, resets |-> resetTrigger]

\* handleMouseDown: pin the first node hit at its position and start a drag
StartDrag(p) ==
  LET hit == FindNodeAtPosition(nodes, transform, p)
  IN  IF hit = NoNode
      THEN UNCHANGED << nodes, isDragging, draggedNode, lastDragged,
                        cursorStyle >>
      ELSE /\ isDragging' = TRUE
           /\ cursorStyle' = "grabbing"
           /\ draggedNode' = [id |-> nodes[hit].id, live |-> TRUE]
           /\ nodes' = [nodes EXCEPT ![hit].fx = nodes[hit].x,
                                     ![hit].fy = nodes[hit].y]
           /\ lastDragged' = [id |-> nodes[hit].id, screen |-> p,
                              at |-> << nodes[hit].x, nodes[hit].y >>,
                              moved |-> FALSE, resets |-> resetTrigger]

\* "mousedown" on the canvas at p: the zoom behaviour's listener runs first
\* and, when its filter accepts the event, starts a pan and stops the
\* propagation; otherwise handleMouseDown runs
MouseDown(p) ==
  /\ mounted
  /\ ~pressed
  /\ gesture.kind = "none"
  /\ Exact(transform, p)
  /\ InCanvas(p)
  /\ Explored
  /\ pressed' = TRUE
  /\ IF ZoomFilter("mousedown", p)
     THEN /\ gesture' = [kind |-> "mouse", anchor |-> ToSim(transform, p),
                         onNode |-> FALSE]
          /\ gestures' = gestures + 1
          /\ UNCHANGED << nodes, isDragging, draggedNode, drags,
                          lastDragged, cursorStyle >>
     ELSE /\ StartDrag(p)
          /\ drags' = drags + 1
          /\ UNCHANGED << gesture, gestures >>
  /\ UNCHANGED << mounted, inputs, expandedClusters, resetTrigger, links,
                  simulation, pendingFrames, canvas, transform, inputChanges,
                  lastExpand >>
  /\ UNCHANGED << listeners, hoverFrame, hoveredNode, opened, clicks,
                  hovers >>
  /\ lastClick' = NoClick

\* "mousemove" to p while a pan gesture is active: d3 zoom emits "zoom"
PanMove(p) ==
  /\ mounted
  /\ gesture.kind = "mouse"
  /\ transform' = ZoomTo(transform.k, p, gesture.anchor)
  /\ transform' # transform
  /\ lastExpand' = NoExpand
  /\ UNCHANGED << mounted, inputs, expandedClusters, resetTrigger, graph,
                  drag, gesture, gestures, drags, inputChanges,
                  lastDragged >>
  /\ UNCHANGED events
  /\ lastClick' = NoClick

\* a pin position that subtracts the translation and forgets the scale
DragPositionUnscaled(t, p) == << p[1] - t.x, p[2] - t.y >>

\* handleMouseMove: transformedX, transformedY of the pointer at screen
\* point p
DragPosition(t, p) == << (p[1] - t.x) \div t.k, (p[2] - t.y) \div t.k >>

\* "mousemove" to p on the canvas during a drag: the hover effect's
\* handleMouseMove (registered first) requests its throttled callback, then
\* handleMouseMove of the drag effect runs
DragMove(p) ==
  /\ mounted
  /\ isDragging
  /\ draggedNode # NoDrag
  /\ Exact(transform, p)
  /\ InCanvas(p)
  /\ nodes' = IF draggedNode.live
              THEN [i \in 1..Len(nodes) |->
                      IF nodes[i].id = draggedNode.id
                      THEN [nodes[i] EXCEPT
                              !.fx = DragPosition(transform, p)[1],
                              !.fy = DragPosition(transform, p)[2]]
                      ELSE nodes[i]]
              ELSE nodes
  /\ simulation' = IF simulation.created
                   THEN [simulation EXCEPT !.ticks = MaxTicks]
                   ELSE simulation
  /\ lastDragged' = IF draggedNode.live
                     THEN [id |-> draggedNode.id, screen |-> p,
                           at |-> DragPosition(transform, p), moved |-> TRUE,
                           resets |-> resetTrigger]
                     ELSE lastDragged
  /\ lastExpand' = NoExpand
  /\ hoverFrame' = IF hoverFrame = NoPoint THEN p ELSE hoverFrame
  /\ UNCHANGED << mounted, inputs, expandedClusters, resetTrigger, links,
                  pendingFrames, canvas, transform, drag, gesture, gestures,
                  drags, inputChanges, listeners, hoveredNode, cursorStyle,
                  opened, clicks, hovers >>
  /\ lastClick' = NoClick

\* a handleMouseUp that leaves the cursor as the drag set it
EndDragKeepsCursor ==
  IF isDragging /\ draggedNode # NoDrag
  THEN /\ isDragging' = FALSE
       /\ draggedNode' = NoDrag
       /\ UNCHANGED cursorStyle
  ELSE UNCHANGED << isDragging, draggedNode, cursorStyle >>

\* handleMouseUp; the cursor is reset from hoveredNodeRef.current
EndDrag ==
  IF isDragging /\ draggedNode # NoDrag
  THEN /\ isDragging' = FALSE
       /\ draggedNode' = NoDrag
       /\ cursorStyle' = IF hoveredNode # NoHover THEN "move" ELSE "grab"
  ELSE UNCHANGED << isDragging, draggedNode, cursorStyle >>

\* "mouseup": handleMouseUp on the canvas, and the end of a pan gesture
MouseUp ==
  /\ mounted
  /\ pressed
  /\ pressed' = FALSE
  /\ EndDrag
  /\ gesture' = IF gesture.kind = "mouse" THEN NoGesture ELSE gesture
  /\ UNCHANGED << mounted, inputs, expandedClusters, resetTrigger, graph,
                  transform, history >>
  /\ UNCHANGED << listeners, hoverFrame, hoveredNode, opened, clicks,
                  hovers >>
  /\ lastClick' = NoClick

\* "mouseleave" during a drag: handleMouseUp; the button is released
\* outside the canvas
MouseLeave ==
  /\ mounted
  /\ isDragging
  /\ pressed' = FALSE
  /\ EndDrag
  /\ lastExpand' = NoExpand
  /\ UNCHANGED << mounted, inputs, expandedClusters, resetTrigger, graph,
                  transform, gesture, gestures, drags, inputChanges,
                  lastDragged >>
  /\ UNCHANGED << listeners, hoverFrame, hoveredNode, opened, clicks,
                  hovers >>
  /\ lastClick' = NoClick

\* "touchstart" at p: only the zoom behaviour listens to touch events
TouchStart(p) ==
  /\ mounted
  /\ gesture.kind = "none"
  /\ Explored
  /\ Exact(transform, p)
  /\ InCanvas(p)
  /\ ZoomFilter("touchstart", p)
  /\ gesture' = [kind |-> "touch", anchor |-> ToSim(transform, p),
                 onNode |-> FindNodeAtPosition(nodes, transform, p) # NoNode]
  /\ gestures' = gestures + 1
  /\ lastExpand' = NoExpand
  /\ UNCHANGED << mounted, inputs, expandedClusters, resetTrigger, graph,
                  transform, drag, drags, inputChanges, lastDragged >>
  /\ UNCHANGED events
  /\ lastClick' = NoClick

\* "touchmove" of a one-finger gesture to p: d3 zoom emits "zoom"
TouchMove(p) ==
  /\ mounted
  /\ gesture.kind = "touch"
  /\ transform' = ZoomTo(transform.k, p, gesture.anchor)
  /\ transform' # transform
  /\ lastExpand' = NoExpand
  /\ UNCHANGED << mounted, inputs, expandedClusters, resetTrigger, graph,
                  drag, gesture, gestures, drags, inputChanges, lastDragged >>
  /\ UNCHANGED events
  /\ lastClick' = NoClick

\* "touchend"
TouchEnd ==
  /\ mounted
  /\ gesture.kind = "touch"
  /\ gesture' = NoGesture
  /\ lastExpand' = NoExpand
  /\ UNCHANGED << mounted, inputs, expandedClusters, resetTrigger, graph,
                  transform, drag, gestures, drags, inputChanges, lastDragged >>
  /\ UNCHANGED events
  /\ lastClick' = NoClick

\* "wheel" at p: zoom in (k doubles) or out (k halves) about p; a wheel
\* gesture of one event
Wheel(p, zoomIn) ==
  /\ mounted
  /\ gesture.kind = "none"
  /\ Explored
  /\ Exact(transform, p)
  /\ InCanvas(p)
  /\ ZoomFilter("wheel", p)
  /\ IF zoomIn THEN transform.k * 2 <= MaxScale ELSE transform.k % 2 = 0
  /\ transform' = ZoomTo(IF zoomIn THEN transform.k * 2
                         ELSE transform.k \div 2, p, ToSim(transform, p))
  /\ gesture' = [kind |-> "wheel", anchor |-> ToSim(transform, p),
                 onNode |-> FindNodeAtPosition(nodes, transform, p) # NoNode]
  /\ gestures' = gestures + 1
  /\ lastExpand' = NoExpand
  /\ UNCHANGED << mounted, inputs, expandedClusters, resetTrigger, graph,
                  drag, drags, inputChanges, lastDragged >>
  /\ UNCHANGED events
  /\ lastClick' = NoClick

\* the wheel gesture ends when no wheel event arrives for 150 ms
WheelEnd ==
  /\ gesture.kind = "wheel"
  /\ gesture' = NoGesture
  /\ UNCHANGED << mounted, inputs, expandedClusters, resetTrigger, graph,
                  transform, drag, history >>
  /\ UNCHANGED events
  /\ lastClick' = NoClick

\* ------------------------------------------------------------------------
\* Hover and click
\* ------------------------------------------------------------------------

\* dx * dx + dy * dy of node n and simulation-space point q
Dist2(n, q) ==
  (n.x - q[1]) * (n.x - q[1]) + (n.y - q[2]) * (n.y - q[2])

\* closestNode of the hover callback: the position in ns of the node hit by
\* screen point p that is nearest to it (the first of equally near ones),
\* or NoNode
ClosestNodeAtPosition(ns, t, p) ==
  LET q    == ToSim(t, p)
      hits == {i \in 1..Len(ns) : Hit(ns[i], q)}
  IN  IF hits = {} THEN NoNode
      ELSE CHOOSE i \in hits :
              \A j \in hits :
                 \/ Dist2(ns[i], q) < Dist2(ns[j], q)
                 \/ (Dist2(ns[i], q) = Dist2(ns[j], q) /\ i <= j)

\* "mousemove" to p on the canvas while no button is held: handleMouseMove
\* of the hover effect requests its callback unless one is pending
Hover(p) ==
  /\ mounted
  /\ ~pressed
  /\ gesture.kind # "touch"
  /\ Exact(transform, p)
  /\ InCanvas(p)
  /\ Explored
  /\ hovers' = hovers + 1
  /\ hoverFrame' = IF hoverFrame = NoPoint THEN p ELSE hoverFrame
  /\ UNCHANGED << mounted, inputs, expandedClusters, resetTrigger, graph,
                  transform, drag, gesture, history, listeners, hoveredNode,
                  cursorStyle, opened, clicks >>
  /\ lastClick' = NoClick

\* the throttled hover callback runs: rafId = null, then the node nearest
\* to the event's point becomes the hovered node
HoverFrame ==
  /\ hoverFrame # NoPoint
  /\ hoverFrame' = NoPoint
  /\ hoveredNode' =
        LET hit == ClosestNodeAtPosition(nodes, transform, hoverFrame)
        IN  IF hit = NoNode THEN NoHover ELSE nodes[hit].id
  /\ cursorStyle' =
        IF isDragging THEN cursorStyle
        ELSE IF ClosestNodeAtPosition(nodes, transform, hoverFrame) # NoNode
             THEN "move" ELSE "grab"
  /\ UNCHANGED << mounted, inputs, expandedClusters, resetTrigger, graph,
                  transform, drag, gesture, history, listeners, opened,
                  clicks, hovers >>
  /\ lastClick' = NoClick

\* `node.type === "paper" && node.paperId`: a paper id that is truthy
HasPaperId(n) ==
  n.type = "paper" /\ n.paperId # Undef /\ n.paperId # 0

\* handleClick for the "click" the browser dispatches at p after a mousedown
\* and a mouseup on the canvas; modifier is event.metaKey || event.ctrlKey
Click(p, modifier) ==
  /\ mounted
  /\ ~pressed
  /\ gesture.kind = "none"
  /\ Exact(transform, p)
  /\ InCanvas(p)
  /\ Explored
  /\ clicks' = clicks + 1
  /\ lastClick' = [point |-> p, modifier |-> modifier]
  /\ opened' =
        LET hit == FindNodeAtPosition(nodes, transform, p)
        IN  IF isDragging \/ ~modifier \/ hit = NoNode THEN opened
            ELSE IF HasPaperId(nodes[hit])
                 THEN Append(opened, nodes[hit].paperId)
                 ELSE opened
  /\ UNCHANGED << mounted, inputs, expandedClusters, resetTrigger, graph,
                  transform, drag, gesture, history, listeners, hoverFrame,
                  hoveredNode, cursorStyle, hovers >>

\* ------------------------------------------------------------------------
\* Physics tick, render loop, unmount
\* ------------------------------------------------------------------------

\* forceCollide radius of a cluster node
CollisionRadius == 20

\* distance between the rest positions of two neighbouring nodes (the
\* collision force keeps two cluster nodes 2 * CollisionRadius apart)
RestSpacing == 2 * CollisionRadius + 10

\* where the forces leave the unpinned node at position i of the list at
\* rest: the collision force keeps the nodes apart, forceCenter and the x/y
\* forces keep them around the canvas centre.  The integration of the
\* forces is not modelled: the rest positions are taken on a row through the
\* centre, RestSpacing apart, in list order.
RestPosition(i, center) ==
  << center[1] + RestSpacing * (i - 1), center[2] >>

\* One tick of the simulation over ns: an unpinned node moves as the forces
\* push it (here: to its rest position), a pinned node is put on its pin
\* (`if (node.fx == null) node.x += node.vx; else node.x = node.fx`)
TickNodes(ns, center) ==
  [i \in 1..Len(ns) |->
     [ns[i] EXCEPT
        !.x = IF ns[i].fx = Undef THEN RestPosition(i, center)[1]
              ELSE ns[i].fx,
        !.y = IF ns[i].fy = Undef THEN RestPosition(i, center)[2]
              ELSE ns[i].fy]]

\* the simulation's timer fires while alpha >= alphaMin
Tick ==
  /\ simulation.ticks > 0
  /\ simulation' = [simulation EXCEPT !.ticks = simulation.ticks - 1]
  /\ nodes' = IF simulation.current
              THEN TickNodes(nodes, simulation.center)
              ELSE nodes
  /\ UNCHANGED << mounted, inputs, expandedClusters, resetTrigger, links,
                  pendingFrames, canvas, transform, drag, gesture, history >>
  /\ UNCHANGED events
  /\ lastClick' = NoClick

\* a requested animation frame runs render(): draw(), then request the next
RenderFrame ==
  \E f \in pendingFrames :
     /\ canvas' = Draw(nodes, f.fresh, simulation.current, TRUE)
     /\ pendingFrames' = RequestAnimationFrame(pendingFrames \ {f}, f.fresh)
     /\ UNCHANGED << mounted, inputs, expandedClusters, resetTrigger, nodes,
                     links, simulation, transform, drag, gesture, history,
                     events >>
     /\ lastClick' = NoClick

\* the component unmounts: the cleanups of the effects run, that of the
\* build effect when its last run got past its early return
Unmount ==
  /\ mounted
  /\ mounted' = FALSE
  /\ simulation' = IF papers # << >>
                   THEN [simulation EXCEPT !.ticks = 0] ELSE simulation
  /\ pendingFrames' = IF papers # << >>
                      THEN CancelAnimationFrame(pendingFrames)
                      ELSE pendingFrames
  /\ listeners' = {}
  /\ hoverFrame' = NoPoint
  /\ UNCHANGED << inputs, expandedClusters, resetTrigger, nodes, links,
                  canvas, transform, drag, gesture, history, hoveredNode,
                  cursorStyle, opened, clicks, hovers >>
  /\ lastClick' = NoClick

\* the screen points a pan or one-finger gesture moves to: those that bring
\* the camera translation to one of PanOffsets
PanPoints ==
  {ToScreen([x |-> o[1], y |-> o[2], k |-> transform.k], gesture.anchor) :
     o \in PanOffsets}

Next ==
  \/ \E ps \in PaperSets : SetPapers(ps)
  \/ \E sel \in Selections : SetSelection(sel)
  \/ \E d \in Densities : SetDensity(d)
  \/ \E dims \in Dimensions : Resize(dims)
  \/ ToggleTheme
  \/ ResetLayout
  \/ \E p \in PointerPoints : DoubleClick(p)
  \/ \E p \in PointerPoints : MouseDown(p)
  \/ \E p \in PanPoints : PanMove(p)
  \/ \E p \in FixedPoints : DragMove(p)
  \/ MouseUp
  \/ MouseLeave
  \/ \E p \in GesturePoints : TouchStart(p)
  \/ \E p \in PanPoints : TouchMove(p)
  \/ TouchEnd
  \/ \E p \in GesturePoints : \E zoomIn \in BOOLEAN : Wheel(p, zoomIn)
  \/ WheelEnd
  \/ \E p \in GesturePoints : Hover(p)
  \/ HoverFrame
  \/ \E p \in PointerPoints : \E modifier \in BOOLEAN : Click(p, modifier)
  \/ Tick
  \/ RenderFrame
  \/ Unmount

Spec == Init /\ [][Next]_vars

\* ------------------------------------------------------------------------
\* The density sampling over all slider values
\* ------------------------------------------------------------------------

\* the values of the density slider: min={1} max={100} step={1}
AllDensities == 1..100

\* the densities the slider is moved to after the first build
SamplingDensities == {50, 100}

\* a record with the given id in cluster c; its coordinates are derived
\* from the id so that distances between records vary and some are equal
Record(c, id) ==
  [id |-> id, cluster_id |-> c,
   x |-> (7 * id) % 10, y |-> (id * id) % 4, z |-> id % 2]

\* a `papers` array of n records of cluster 1 (ids 0..n-1) followed by
\* n / 2 records of cluster 2 (ids 101..), in ascending order of id
Records(n) ==
  [i \in 1..n |-> Record(1, i - 1)]
    \o [j \in 1..(n \div 2) |-> Record(2, 100 + j)]

\* the same records in the opposite order
Reverse(s) == [i \in 1..Len(s) |-> s[Len(s) + 1 - i]]

\* mounted with up to MaxCount records per cluster, the slider at any value
InitSampling ==
  \E n \in 1..MaxCount : \E d \in AllDensities :
     MountedWith(Records(n), d)

NextSampling ==
  \/ \E d \in SamplingDensities : SetDensity(d)
  \/ SetPapers(Reverse(papers))
  \/ \E p \in GesturePoints : DoubleClick(p)

SpecSampling == InitSampling /\ [][NextSampling]_vars

\* ------------------------------------------------------------------------
\* The k-nearest-neighbour links under camera, drag and physics changes
\* ------------------------------------------------------------------------

\* mounted with up to MaxLinked records per cluster, the slider at 50 or 100
InitLinks ==
  \E n \in 1..MaxLinked : \E d \in SamplingDensities :
     MountedWith(Records(n), d)

NextLinks ==
  \/ \E d \in SamplingDensities : SetDensity(d)
  \/ \E p \in GesturePoints : DoubleClick(p)
  \/ \E p \in GesturePoints : MouseDown(p)
  \/ \E p \in FixedPoints : DragMove(p)
  \/ MouseUp
  \/ \E p \in GesturePoints : \E zoomIn \in BOOLEAN : Wheel(p, zoomIn)
  \/ WheelEnd
  \/ Tick

SpecLinks == InitLinks /\ [][NextLinks]_vars

\* ------------------------------------------------------------------------
\* Hit-testing over node positions and pointer positions
\* ------------------------------------------------------------------------

\* positions the simulation has moved a node to
HitPositions == {<< 100, 100 >>, << 106, 100 >>, << 118, 100 >>}

\* screen points of the pointer events
HitPoints == {<< 103, 103 >>, << 120, 120 >>, << 110, 100 >>, << 100, 100 >>}

\* the nodes ns with the node at position i moved to pos[i]
PlacedAt(ns, pos) ==
  [i \in 1..Len(ns) |-> [ns[i] EXCEPT !.x = pos[i][1], !.y = pos[i][2]]]

\* mounted with two records of cluster 1, which is expanded, and one of
\* cluster 2; the simulation has come to rest with the two item nodes and
\* the cluster node at any of HitPositions
InitHitTest ==
  /\ mounted = TRUE
  /\ papers = Records(2)
  /\ selectedClusterIds = {}
  /\ isDarkTheme = FALSE
  /\ dimensions = InitialDimensions
  /\ expandedClusters = {1}
  /\ densityPercent = 100
  /\ resetTrigger = 0
  /\ transform = ZoomIdentity
  /\ isDragging = FALSE
  /\ draggedNode = NoDrag
  /\ gesture = NoGesture
  /\ pressed = FALSE
  /\ gestures = 0
  /\ drags = 0
  /\ inputChanges = 0
  /\ lastDragged = NeverDragged
  /\ lastExpand = NoExpand
  /\ listeners = AllListeners
  /\ hoverFrame = NoPoint
  /\ hoveredNode = NoHover
  /\ cursorStyle = "grab"
  /\ opened = << >>
  /\ clicks = 0
  /\ hovers = 0
  /\ lastClick = NoClick
  /\ LET r == BuildEffect(Records(2), {}, 100, {1}, InitialDimensions,
                          << >>, << >>, NoSimulation, {}, BlankCanvas, FALSE)
     IN  /\ \E pos \in [1..Len(r.nodes) -> HitPositions] :
               nodes = PlacedAt(r.nodes, pos)
         /\ links = r.links
         /\ simulation = [r.simulation EXCEPT !.ticks = 0]
         /\ pendingFrames = r.pendingFrames
         /\ canvas = r.canvas

NextHitTest ==
  \/ \E p \in HitPoints : DoubleClick(p)
  \/ \E p \in HitPoints : MouseDown(p)
  \/ MouseUp
  \/ \E p \in HitPoints : \E modifier \in BOOLEAN : Click(p, modifier)
  \/ \E p \in HitPoints : Hover(p)
  \/ HoverFrame
  \/ \E p \in HitPoints : \E zoomIn \in BOOLEAN : Wheel(p, zoomIn)
  \/ WheelEnd

SpecHitTest == InitHitTest /\ [][NextHitTest]_vars

\* ------------------------------------------------------------------------
\* The cluster filter over selections
\* ------------------------------------------------------------------------

\* the largest number of records of cluster 1 in the filtered inputs
MaxFiltered == 4

\* the values of the `selectedClusterIds` prop: any set of the cluster ids
\* 1 and 2, which have records, and 3, which has none
FilterSelections == SUBSET {1, 2, 3}

\* Records(n) with a record without cluster id in front and in the middle
RecordsWithNull(n) ==
  << Record(Undef, 50) >> \o SubSeq(Records(n), 1, 1)
    \o << Record(Undef, 51) >> \o SubSeq(Records(n), 2, Len(Records(n)))

InitFilter ==
  \E n \in 2..MaxFiltered : \E d \in AllDensities :
     MountedWith(RecordsWithNull(n), d)

NextFilter ==
  \/ \E sel \in FilterSelections : SetSelection(sel)
  \/ \E d \in SamplingDensities : SetDensity(d)
  \/ \E p \in PointerPoints : DoubleClick(p)

SpecFilter == InitFilter /\ [][NextFilter]_vars

\* ------------------------------------------------------------------------
\* Properties
\* ------------------------------------------------------------------------

\* the positions in the node list of the nodes of type t of cluster c
NodesOf(c, t) ==
  {i \in 1..Len(nodes) : nodes[i].clusterId = c /\ nodes[i].type = t}

\* the last run of the build effect got past its early return, so the node
\* list is the one built from the current inputs
BuildCompleted == papers # << >>

\* C1: after every completed build, a cluster with at least one record
\* passing the filter is shown by one item node per sampled record and no
\* cluster node when it is expanded, and by exactly one cluster node and no
\* item node otherwise; in no state at all is a cluster shown by a cluster
\* node and by item nodes at once.
C1_OneRepresentation ==
  /\ BuildCompleted =>
        \A c \in Clusters :
           LET cp      == ClusterPapers(papers, selectedClusterIds, c)
               sampled == SamplePapers(cp, densityPercent)
           IN  cp # << >> =>
                 IF c \in expandedClusters
                 THEN /\ NodesOf(c, "cluster") = {}
                      /\ Cardinality(NodesOf(c, "paper")) = Len(sampled)
                      /\ {nodes[i].paperId : i \in NodesOf(c, "paper")}
                            = {sampled[j].id : j \in 1..Len(sampled)}
                 ELSE /\ Cardinality(NodesOf(c, "cluster")) = 1
                      /\ NodesOf(c, "paper") = {}
  /\ \A c \in Clusters :
        NodesOf(c, "cluster") = {} \/ NodesOf(c, "paper") = {}

\* C1 witness: a completed build with one cluster expanded into two sampled
\* items next to a collapsed cluster
C1_Witness ==
  /\ BuildCompleted
  /\ expandedClusters = {1}
  /\ Cardinality(NodesOf(1, "paper")) = 2
  /\ Cardinality(NodesOf(2, "cluster")) = 1

\* C2: the cluster node of a collapsed cluster carries the number of records
\* the cluster has before the density sampling, whatever the density is.
C2_FullMemberCount ==
  BuildCompleted =>
    \A i \in 1..Len(nodes) :
       nodes[i].type = "cluster" =>
         nodes[i].paperCount
           = Len(ClusterPapers(papers, selectedClusterIds, nodes[i].clusterId))

\* C3: as long as the layout has not been reset since, the node the user
\* dragged last is pinned at the position it was dragged to in every node
\* list that holds a node with that id.
C3_PinsPersist ==
  (lastDragged.moved /\ lastDragged.resets = resetTrigger) =>
    \A i \in 1..Len(nodes) :
       nodes[i].id = lastDragged.id =>
         /\ nodes[i].fx = lastDragged.at[1]
         /\ nodes[i].fy = lastDragged.at[2]

\* a step in which resetLayout() ran
ResetStep == resetTrigger' # resetTrigger

\* C4: after resetLayout() and the rebuild it triggers, the expansion set is
\* empty, the camera transform is the identity, no node is pinned and every
\* node sits at the default seed position of its place in the list, not at a
\* position from before the reset.
C4_ResetClearsLayout ==
  [][ResetStep =>
       /\ expandedClusters' = {}
       /\ transform' = ZoomIdentity
       /\ \A i \in 1..Len(nodes') :
             /\ nodes'[i].fx = Undef
             /\ nodes'[i].fy = Undef
             /\ << nodes'[i].x, nodes'[i].y >> = PhyllotaxisSeed(i - 1)]_vars

\* C4 witness: the layout was reset after a node had been dragged to the
\* screen point (50, 50); the node is in the list, unpinned and elsewhere
C4_Witness ==
  /\ resetTrigger = 1
  /\ lastDragged.resets = 0
  /\ lastDragged.moved
  /\ lastDragged.screen = << 50, 50 >>
  /\ \E i \in 1..Len(nodes) :
        /\ nodes[i].id = lastDragged.id
        /\ nodes[i].fx = Undef
        /\ << nodes[i].x, nodes[i].y >> # lastDragged.at

\* a step in which the build effect ran to completion without a reset
RebuildStep ==
  /\ inputs' # inputs \/ expandedClusters' # expandedClusters
  /\ resetTrigger' = resetTrigger
  /\ papers' # << >>

\* C5 as stated: on a rebuild every node whose id was in the previous node
\* list starts the new build with exactly the x, y, fx and fy it had.
C5_InheritsExactly ==
  [][RebuildStep =>
       \A i \in 1..Len(nodes) : \A j \in 1..Len(nodes') :
          nodes'[j].id = nodes[i].id =>
            /\ nodes'[j].x = nodes[i].x
            /\ nodes'[j].y = nodes[i].y
            /\ nodes'[j].fx = nodes[i].fx
            /\ nodes'[j].fy = nodes[i].fy]_vars

\* C5: on a rebuild every node whose id was in the previous node list keeps
\* the fx and fy it had; it keeps its x and y when it is not pinned, and is
\* put on its pin (x = fx, y = fy) when it is pinned.
C5_InheritsOrSnapsToPin ==
  [][RebuildStep =>
       \A i \in 1..Len(nodes) : \A j \in 1..Len(nodes') :
          nodes'[j].id = nodes[i].id =>
            /\ nodes'[j].fx = nodes[i].fx
            /\ nodes'[j].fy = nodes[i].fy
            /\ nodes'[j].x = IF nodes[i].fx # Undef THEN nodes[i].fx
                              ELSE nodes[i].x
            /\ nodes'[j].y = IF nodes[i].fy # Undef THEN nodes[i].fy
                              ELSE nodes[i].y]_vars

\* C5 witness: a rebuild that changed only the density has just run, and the
\* second cluster node is where the simulation had moved it before, not at
\* its seed position
C5_Witness ==
  /\ inputChanges = 1
  /\ drags = 0
  /\ densityPercent # InitialDensityPercent
  /\ simulation.ticks = MaxTicks
  /\ \E i \in 1..Len(nodes) :
        /\ nodes[i].id = ClusterNodeId(2)
        /\ << nodes[i].x, nodes[i].y >> # PhyllotaxisSeed(i - 1)

\* C6: when a collapsed cluster is expanded by a double-click on its cluster
\* node and the next double-click, with no input change in between, collapses
\* it again through one of its item nodes, the node list holds exactly one
\* cluster node for it, no item node of it, and the cluster node shows the
\* paperCount it showed before the expansion.
C6_ExpandCollapseRoundTrip ==
  lastExpand.collapsed =>
    /\ Cardinality(NodesOf(lastExpand.clusterId, "cluster")) = 1
    /\ NodesOf(lastExpand.clusterId, "paper") = {}
    /\ \A i \in NodesOf(lastExpand.clusterId, "cluster") :
          nodes[i].paperCount = lastExpand.paperCount

\* C6 witness: cluster 1, shown with paperCount 2, has been expanded and
\* collapsed again
C6_Witness ==
  /\ lastExpand.collapsed
  /\ lastExpand.clusterId = 1
  /\ lastExpand.paperCount = 2
  /\ expandedClusters = {}

\* C7: a pointerdown on a node starts a drag of that node and pins it where
\* it is; every pointermove of the drag sets the pin of the dragged node to
\* the pointer's screen point mapped by the inverse camera transform
\* ((screen - translate) / k) and re-heats the simulation; the end of the
\* drag (pointerup, pointer leaving the canvas) leaves every pin as it is.
C7_DragStateMachine ==
  [][/\ (~isDragging /\ isDragging') =>
          /\ draggedNode'.live
          /\ \E i \in 1..Len(nodes) :
                /\ nodes[i].id = draggedNode'.id
                /\ nodes'[i].fx = nodes[i].x
                /\ nodes'[i].fy = nodes[i].y
     /\ (isDragging /\ lastDragged' # lastDragged) =>
          /\ isDragging'
          /\ draggedNode' = draggedNode
          /\ simulation'.ticks = MaxTicks
          /\ \E i \in 1..Len(nodes') :
                /\ nodes'[i].id = draggedNode.id
                /\ nodes'[i].fx * transform.k + transform.x
                     = lastDragged'.screen[1]
                /\ nodes'[i].fy * transform.k + transform.y
                     = lastDragged'.screen[2]
     /\ (isDragging /\ ~isDragging') =>
          /\ draggedNode' = NoDrag
          /\ nodes' = nodes]_vars

\* C7 witness: under a camera zoomed to scale 2, a node is being dragged and
\* is pinned at the simulation-space point of the pointer, which differs
\* from the pointer's screen point
C7_Witness ==
  /\ isDragging
  /\ transform.k = 2
  /\ lastDragged.moved
  /\ lastDragged.id = draggedNode.id
  /\ lastDragged.at # lastDragged.screen
  /\ \E i \in 1..Len(nodes) :
        /\ nodes[i].id = draggedNode.id
        /\ << nodes[i].fx, nodes[i].fy >> = lastDragged.at

\* C8: the camera transform is not changed (other than by resetLayout) while
\* a node is dragged, nor by a gesture (wheel, touch, pan) that started on
\* top of a node; a pan and a node drag are never active together.
C8_CameraGuards ==
  [][/\ (transform' # transform /\ ~ResetStep) =>
          /\ ~isDragging
          /\ ~gesture'.onNode
     /\ ~(isDragging' /\ gesture'.kind = "mouse")]_vars

\* C9: at most one render loop is pending, its closure holds the node array
\* of the most recent build, and what was drawn last was drawn from the node
\* array and the link array of the most recent build.
C9_FramesDrawCurrentBuild ==
  /\ Cardinality(pendingFrames) <= 1
  /\ \A f \in pendingFrames : f.fresh
  /\ canvas.nodesCurrent
  /\ canvas.linksCurrent

\* C9 witness: after a rebuild that expanded a cluster, an animation frame
\* has drawn the nodes of that build and the next frame is pending
C9_Witness ==
  /\ BuildCompleted
  /\ expandedClusters # {}
  /\ canvas.byFrame
  /\ canvas.nodeIds = [i \in 1..Len(nodes) |-> nodes[i].id]
  /\ Cardinality(pendingFrames) = 1

\* C10: from mount to unmount a render-frame callback is pending in every
\* state.
C10_RenderLoopAlwaysPending ==
  mounted => pendingFrames # {}

\* C11: after the component has unmounted the simulation is stopped (no
\* tick is due), no render frame and no throttled hover callback is pending,
\* and none of the listeners the component registered is left.
C11_UnmountStopsEverything ==
  ~mounted =>
    /\ simulation.ticks = 0
    /\ pendingFrames = {}
    /\ hoverFrame = NoPoint
    /\ listeners = {}

\* C12: whenever the record set is empty, the current node list and the
\* current link list are empty, so that no node of an earlier build can be
\* drawn, hovered, clicked or dragged.
C12_EmptyRecordsEmptyGraph ==
  papers = << >> => (nodes = << >> /\ links = << >>)

\* a record without a value for one of its coordinates
MissingCoordinates(r) == r.x = Undef \/ r.y = Undef \/ r.z = Undef

\* C13: a record that is missing its coordinates has no item node in the
\* node list and is at neither end of any link.
C13_DropsMissingCoordinates ==
  \A j \in 1..Len(papers) :
     MissingCoordinates(papers[j]) =>
       /\ \A i \in 1..Len(nodes) :
             ~(nodes[i].type = "paper" /\ nodes[i].paperId = papers[j].id)
       /\ \A m \in 1..Len(links) :
             /\ links[m].source # PaperNodeId(papers[j].id)
             /\ links[m].target # PaperNodeId(papers[j].id)

\* the ids of the records shown as item nodes of cluster c
SampledIds(c) == {nodes[i].paperId : i \in NodesOf(c, "paper")}

\* the number of sampled records of cluster c the node list shows: the
\* paperCount of its cluster node, or the number of its item nodes
SampledCount(c) ==
  IF NodesOf(c, "cluster") # {}
  THEN nodes[CHOOSE i \in NodesOf(c, "cluster") : TRUE].paperCount
  ELSE Cardinality(NodesOf(c, "paper"))

\* ceil(count * d / 100)
TargetCount(count, d) ==
  CHOOSE t \in 0..count : 100 * t >= count * d /\ 100 * (t - 1) < count * d

\* ceil(count / t)
Step(count, t) ==
  CHOOSE st \in 1..count : st * t >= count /\ (st - 1) * t < count

\* the number of records of cp with a smaller id than r
Rank(cp, r) == Cardinality({j \in 1..Len(cp) : cp[j].id < r.id})

\* the ids of the records of cp at positions 0, s, 2s, ... in id order, for
\* s = ceil(count / ceil(count * d / 100))
KeptIds(cp, d) ==
  LET st == Step(Len(cp), TargetCount(Len(cp), d))
  IN  {cp[j].id : j \in {m \in 1..Len(cp) : Rank(cp, cp[m]) % st = 0}}

\* C14: at a density below 100 the builder keeps of every cluster exactly
\* the records at positions 0, s, 2s, ... of the id-sorted records, with
\* s = ceil(count / targetCount) and targetCount = ceil(count * d / 100);
\* their number is ceil(count / s) and does not exceed targetCount; clusters
\* of 10, 5 and 2 records at density 50 keep 5, 3 and 1 records.
C14_SamplingRule ==
  \A c \in Clusters :
     LET cp    == ClusterPapers(papers, selectedClusterIds, c)
         count == Len(cp)
         t     == TargetCount(count, densityPercent)
         st    == Step(count, t)
     IN  (count > 0 /\ densityPercent < 100) =>
           /\ c \in expandedClusters =>
                 SampledIds(c) = KeptIds(cp, densityPercent)
           /\ SampledCount(c) = Cardinality(KeptIds(cp, densityPercent))
           /\ SampledCount(c) * st >= count
           /\ (SampledCount(c) - 1) * st < count
           /\ SampledCount(c) <= t
           /\ (densityPercent = 50 /\ count = 10) => SampledCount(c) = 5
           /\ (densityPercent = 50 /\ count = 5) => SampledCount(c) = 3
           /\ (densityPercent = 50 /\ count = 2) => SampledCount(c) = 1

\* C14 witness: at density 50 a cluster of 10 records given in descending
\* order of id is expanded into the 5 items with the ids 0, 2, 4, 6, 8 and a
\* cluster of 5 records shows the count 3
C14_Witness ==
  /\ densityPercent = 50
  /\ Len(ClusterPapers(papers, selectedClusterIds, 1)) = 10
  /\ papers[1].id > papers[Len(papers)].id
  /\ expandedClusters = {1}
  /\ SampledIds(1) = {0, 2, 4, 6, 8}
  /\ SampledCount(2) = 3

\* C15: for every cluster with at least one record the sampled count equals
\* the count at density 100, lies between 1 and the count at every lower
\* density, is 1 at density 1, is not below the sampled count of any lower
\* density and not above that of any higher density.
C15_DensityMonotone ==
  \A c \in Clusters :
     LET cp    == ClusterPapers(papers, selectedClusterIds, c)
         count == Len(cp)
     IN  count >= 1 =>
           /\ densityPercent = 100 => SampledCount(c) = count
           /\ 1 <= SampledCount(c)
           /\ SampledCount(c) <= count
           /\ densityPercent = 1 => SampledCount(c) = 1
           /\ \A d \in AllDensities :
                 /\ d < densityPercent =>
                       Len(SamplePapers(cp, d)) <= SampledCount(c)
                 /\ d > densityPercent =>
                       Len(SamplePapers(cp, d)) >= SampledCount(c)

\* C15 witness: a cluster of 10 records sampled down to a single record at
\* density 1
C15_Witness ==
  /\ densityPercent = 1
  /\ Len(ClusterPapers(papers, selectedClusterIds, 1)) = MaxCount
  /\ SampledCount(1) = 1

\* the records of cp in ascending order of id
InIdOrder(cp) ==
  [k \in 1..Len(cp) |->
     cp[CHOOSE j \in 1..Len(cp) : Rank(cp, cp[j]) = k - 1]]

\* C16: the sampled subset of every cluster is the one a first build yields
\* for the same records listed in id order at the same density, whatever
\* the order of the input array and whatever builds, densities and
\* double-clicks came before.
C16_SubsetDeterministic ==
  \A c \in Clusters :
     LET cp    == ClusterPapers(papers, selectedClusterIds, c)
         first == SamplePapers(InIdOrder(cp), densityPercent)
     IN  cp # << >> =>
           /\ SampledCount(c) = Len(first)
           /\ c \in expandedClusters =>
                 SampledIds(c) = {first[k].id : k \in 1..Len(first)}

\* C16 witness: after the records were passed in the opposite order and the
\* slider was moved from another density to 50, an expanded cluster of 9
\* records shows the items 0, 2, 4, 6, 8
C16_Witness ==
  /\ inputChanges = 2
  /\ densityPercent = 50
  /\ papers[1].id > papers[Len(papers)].id
  /\ 1 \in expandedClusters
  /\ Len(ClusterPapers(papers, selectedClusterIds, 1)) = 9
  /\ SampledIds(1) = {0, 2, 4, 6, 8}

\* the positions in the node list of the item nodes of cluster c
ItemNodesOf(c) ==
  {i \in 1..Len(nodes) : nodes[i].type = "paper" /\ nodes[i].clusterId = c}

\* the two node ids a link joins, as an unordered pair
Endpoints(l) == {l.source, l.target}

SampledRecords(c) ==
  SamplePapers(ClusterPapers(papers, selectedClusterIds, c), densityPercent)

\* seen from the record at position i of cp, the record at position j1 is
\* nearer than the one at j2: a smaller distance in the records' own
\* coordinates, or the same distance and an earlier place in the list
Nearer(cp, i, j1, j2) ==
  \/ Distance2(cp[i], cp[j1]) < Distance2(cp[i], cp[j2])
  \/ (Distance2(cp[i], cp[j1]) = Distance2(cp[i], cp[j2]) /\ j1 < j2)

\* the positions of the records the one at position i proposes an edge to:
\* those with fewer than K other records nearer
Proposed(cp, i) ==
  {j \in (1..Len(cp)) \ {i} :
     Cardinality({j2 \in (1..Len(cp)) \ {i, j} : Nearer(cp, i, j2, j)}) < K}

\* the unordered pairs of node ids some record of cp proposes
ProposedEdges(cp) ==
  UNION {{{PaperNodeId(cp[i].id), PaperNodeId(cp[j].id)} :
            j \in Proposed(cp, i)} : i \in 1..Len(cp)}

\* the edges of the list that join item nodes of cluster c
EdgesOf(c) ==
  {m \in 1..Len(links) :
     \E i \in ItemNodesOf(c) : nodes[i].id = links[m].source}

\* C18: in an expanded cluster of n sampled records every record proposes
\* min(K, n - 1) edges, to the records nearest in the records' own
\* coordinates with ties broken by list order; the edges of the cluster are
\* exactly the proposed unordered pairs, whatever the camera transform, the
\* node positions, the pins and the simulation are; five item nodes get at
\* most 5 * K / 2 edges
C18_NearestNeighborEdges ==
  \A c \in expandedClusters :
     LET cp == SampledRecords(c)
     IN  /\ \A i \in 1..Len(cp) :
               Cardinality(Proposed(cp, i)) =
                  (IF Len(cp) - 1 < K THEN Len(cp) - 1 ELSE K)
         /\ {Endpoints(links[m]) : m \in EdgesOf(c)} = ProposedEdges(cp)
         /\ Len(cp) = 5 => 2 * Cardinality(EdgesOf(c)) <= 5 * K

\* MaxLinked item nodes whose records do not all propose each other and
\* where list order breaks a tie, seen through a zoomed camera with one
\* node pinned
C18_Witness ==
  /\ 1 \in expandedClusters
  /\ Cardinality(ItemNodesOf(1)) = MaxLinked
  /\ LET cp == SampledRecords(1)
     IN  /\ \E i \in 1..Len(cp) : \E j \in (1..Len(cp)) \ {i} :
               j \notin Proposed(cp, i) /\ i \notin Proposed(cp, j)
         /\ \E i \in 1..Len(cp) : \E j1 \in Proposed(cp, i) :
               \E j2 \in (1..Len(cp)) \ ({i} \cup Proposed(cp, i)) :
                  Distance2(cp[i], cp[j1]) = Distance2(cp[i], cp[j2])
  /\ transform.k # 1
  /\ \E i \in ItemNodesOf(1) : nodes[i].fx # Undef

\* C19: the open-details callback is invoked exactly when a click with Ctrl
\* or Meta held lands on an item node, once and with that node's item id,
\* whatever the id is; a click on a cluster node, a click without modifier,
\* a click on empty space and every other event leave it uninvoked
C19_OpensExactlyOnModifierClick ==
  [][IF clicks' # clicks /\ lastClick'.modifier
     THEN LET hit == FindNodeAtPosition(nodes, transform, lastClick'.point)
          IN  IF hit # NoNode /\ nodes[hit].type = "paper"
              THEN opened' = Append(opened, nodes[hit].paperId)
              ELSE opened' = opened
     ELSE opened' = opened]_vars

\* the cluster ids whose membership in the expansion set a step may change
ClusterIds ==
  expandedClusters \cup expandedClusters'
    \cup {nodes[i].clusterId : i \in 1..Len(nodes)}

\* a double-click at p changes the expansion set as follows: on an item
\* node its cluster id is out afterwards, on empty space nothing changes,
\* no other cluster id changes its membership, and on a cluster node the
\* cluster id is in afterwards (toggles: iff it was out before)
DoubleClickEffect(p, toggles) ==
  LET hit == FindNodeAtPosition(nodes, transform, p)
  IN  IF hit = NoNode THEN expandedClusters' = expandedClusters
      ELSE LET c == nodes[hit].clusterId
           IN  /\ nodes[hit].type = "cluster"
                    => (c \in expandedClusters'
                          <=> (toggles => c \notin expandedClusters))
               /\ nodes[hit].type = "paper" => c \notin expandedClusters'
               /\ \A d \in ClusterIds \ {c} :
                     d \in expandedClusters' <=> d \in expandedClusters

Within(n, q) ==
  LET reach == (IF n.type = "cluster" THEN 15 ELSE 5) + 5
  IN  /\ n.x # Undef /\ n.y # Undef
      /\ Dist2(n, q) < reach * reach

\* the positions in the node list of the nodes that match screen point p
Matches(p) ==
  {i \in 1..Len(nodes) : Within(nodes[i], ToSim(transform, p))}

\* the first match of screen point p in build order
FirstMatch(p) == CHOOSE i \in Matches(p) : \A j \in Matches(p) : i <= j

\* the ids of the matches of screen point p no other match is nearer than
ClosestMatches(p) ==
  {nodes[i].id : i \in {i \in Matches(p) : \A j \in Matches(p) :
       Dist2(nodes[i], ToSim(transform, p))
          <= Dist2(nodes[j], ToSim(transform, p))}}

\* C21: hit-testing matches a node exactly when the simulation-space
\* distance between the query point and the node centre is less than the
\* node's radius (15 cluster, 5 item) plus 5: an item node at (100,100) is
\* picked by (103,103) and not by (120,120).  Of several matches click,
\* drag-start and double-click pick the first in build order, hover picks
\* a closest one.
C21_HitTesting ==
  [][/\ \A i \in 1..Len(nodes) :
          (nodes[i].type = "paper" /\ nodes[i].x = 100 /\ nodes[i].y = 100)
            => /\ FindNodeAtPosition(<< nodes[i] >>, ZoomIdentity,
                                      << 103, 103 >>) = 1
               /\ FindNodeAtPosition(<< nodes[i] >>, ZoomIdentity,
                                      << 120, 120 >>) = NoNode
     /\ \A p \in HitPoints :
          /\ MouseDown(p) =>
                IF Matches(p) = {} THEN ~isDragging'
                ELSE /\ isDragging'
                     /\ draggedNode'.id = nodes[FirstMatch(p)].id
          /\ DoubleClick(p) =>
                IF Matches(p) = {} THEN expandedClusters' = expandedClusters
                ELSE LET n == nodes[FirstMatch(p)]
                     IN  /\ n.type = "paper"
                              => n.clusterId \notin expandedClusters'
                         /\ n.type = "cluster"
                              => (n.clusterId \in expandedClusters'
                                    <=> n.clusterId \notin expandedClusters)
          /\ Click(p, TRUE) =>
                IF Matches(p) # {} /\ nodes[FirstMatch(p)].type = "paper"
                   /\ nodes[FirstMatch(p)].paperId # 0
                THEN opened' = Append(opened, nodes[FirstMatch(p)].paperId)
                ELSE opened' = opened
     /\ HoverFrame =>
          IF Matches(hoverFrame) = {} THEN hoveredNode' = NoHover
          ELSE hoveredNode' \in ClosestMatches(hoverFrame)]_vars

\* the pointer went down at (103,103) on an item node at (100,100) and
\* picked it although a later node of the list matches as well, and the
\* hover callback has picked a node that is not the first match
C21_Witness ==
  /\ isDragging
  /\ lastDragged.screen = << 103, 103 >>
  /\ lastDragged.at = << 100, 100 >>
  /\ Cardinality(Matches(<< 103, 103 >>)) > 1
  /\ \E i \in 1..Len(nodes) :
        nodes[i].id = draggedNode.id /\ nodes[i].type = "paper"
  /\ hoveredNode # NoHover
  /\ \E p \in HitPoints :
        /\ Matches(p) # {}
        /\ hoveredNode \in ClosestMatches(p)
        /\ hoveredNode # nodes[FirstMatch(p)].id

\* C22: whenever the controller is not dragging, a processed pointermove
\* sets the hovered node to a nearest node within radius + 5 of the pointer
\* in simulation space (or to none), and the cursor is 'move' exactly when a
\* node is hovered and 'grab' otherwise; while the controller is dragging
\* the cursor is 'grabbing' in every state, also after a hover callback
\* that was requested before the drag started has run
C22_HoverAndCursor ==
  [][/\ (HoverFrame /\ ~isDragging) =>
          IF Matches(hoverFrame) = {} THEN hoveredNode' = NoHover
          ELSE hoveredNode' \in ClosestMatches(hoverFrame)
     /\ ~isDragging' =>
          cursorStyle' = (IF hoveredNode' # NoHover THEN "move" ELSE "grab")
     /\ isDragging' => cursorStyle' = "grabbing"]_vars

\* a hover callback requested before the pointer went down on a node has
\* run during the drag and found a node under the pointer
C22_Witness ==
  /\ isDragging
  /\ hovers > 0
  /\ drags > 0
  /\ hoverFrame = NoPoint
  /\ hoveredNode # NoHover
  /\ ~lastDragged.moved
  /\ cursorStyle = "grabbing"

\* the cluster ids of the records that have one
ClustersWithRecords ==
  {papers[i].cluster_id : i \in 1..Len(papers)} \ {Undef}

\* the ids of the item nodes the records without cluster id would have
NullClusterNodeIds ==
  {PaperNodeId(papers[i].id) :
     i \in {j \in 1..Len(papers) : papers[j].cluster_id = Undef}}

\* the nodes an edge of the list joins
EndpointNodes(l) ==
  {i \in 1..Len(nodes) : nodes[i].id \in Endpoints(l)}

\* C23: a record with a null cluster id produces no node and no edge; with
\* a non-empty selection every node and every edge of a build belongs to a
\* selected cluster; with an empty selection every cluster that has a
\* record with a cluster id is represented in the build
C23_ClusterFilter ==
  BuildCompleted =>
    /\ \A i \in 1..Len(nodes) :
          /\ nodes[i].id \notin NullClusterNodeIds
          /\ nodes[i].clusterId # Undef
    /\ \A m \in 1..Len(links) : Endpoints(links[m]) \cap NullClusterNodeIds = {}
    /\ selectedClusterIds # {} =>
          /\ \A i \in 1..Len(nodes) : nodes[i].clusterId \in selectedClusterIds
          /\ \A m \in 1..Len(links) :
                /\ EndpointNodes(links[m]) # {}
                /\ \A i \in EndpointNodes(links[m]) :
                      nodes[i].clusterId \in selectedClusterIds
    /\ selectedClusterIds = {} =>
          \A c \in ClustersWithRecords :
             \E i \in 1..Len(nodes) : nodes[i].clusterId = c

\* a build under a selection that leaves out a cluster with records, whose
\* selected cluster is expanded and has edges
C23_Witness ==
  /\ selectedClusterIds = {1, 3}
  /\ 1 \in expandedClusters
  /\ NullClusterNodeIds # {}
  /\ 2 \in ClustersWithRecords
  /\ links # << >>

\* the records of the input have pairwise distinct ids
DistinctRecordIds ==
  \A i, j \in 1..Len(papers) : i # j => papers[i].id # papers[j].id

\* C24: given input records with pairwise distinct ids, no two nodes of the
\* node list of a build share an id (a cluster node is 'cluster-{clusterId}',
\* an item node 'paper-{itemId}'), for every expansion set, selection and
\* density
C24_UniqueNodeIds ==
  (BuildCompleted /\ DistinctRecordIds) =>
    /\ \A i, j \in 1..Len(nodes) : i # j => nodes[i].id # nodes[j].id
    /\ \A i \in 1..Len(nodes) :
          nodes[i].id = IF nodes[i].type = "cluster"
                        THEN << "cluster", nodes[i].clusterId >>
                        ELSE << "paper", nodes[i].paperId >>

\* a build under a selection with an expanded cluster that has an item
\* whose id is the cluster id of a collapsed cluster next to it
C24_Witness ==
  /\ BuildCompleted
  /\ DistinctRecordIds
  /\ selectedClusterIds = {1, 2}
  /\ densityPercent < 100
  /\ \E i, j \in 1..Len(nodes) :
        /\ nodes[i].type = "paper"
        /\ nodes[j].type = "cluster"
        /\ nodes[i].paperId = nodes[j].clusterId

\* the positions in the node list ns of the item nodes of cluster c
ItemsIn(ns, c) ==
  {i \in 1..Len(ns) : ns[i].type = "paper" /\ ns[i].clusterId = c}

\* cluster c is on display in the node list ns, as its cluster node or as
\* item nodes
IsKnown(ns, c) == \E j \in 1..Len(ns) : ns[j].clusterId = c

\* q is a position cluster c is known at in the node list ns: that of its
\* cluster node, else one between its item nodes
KnownAt(ns, c, q) ==
  IF \E j \in 1..Len(ns) : ns[j].id = ClusterNodeId(c)
  THEN \E j \in 1..Len(ns) :
          ns[j].id = ClusterNodeId(c) /\ q = << ns[j].x, ns[j].y >>
  ELSE /\ \E a, b \in ItemsIn(ns, c) : ns[a].x <= q[1] /\ q[1] <= ns[b].x
       /\ \E a, b \in ItemsIn(ns, c) : ns[a].y <= q[2] /\ q[2] <= ns[b].y

\* C25: in every build, an item node of an expanded cluster that has no
\* previous position of its own is seeded at the offset of radius 30 its
\* index gives, around the cluster's last known position, and around the
\* canvas centre only when the cluster has no known position; also when
\* the item first appears in a later build while the cluster stays expanded
C25_SeededAroundCluster ==
  [][\A i \in 1..Len(nodes') :
       (/\ nodes'[i].type = "paper"
        /\ \A j \in 1..Len(nodes) : nodes[j].id # nodes'[i].id)
         => LET c     == nodes'[i].clusterId
                items == ItemsIn(nodes', c)
                index == Cardinality({j \in items : j < i})
                off   == SpiralOffset(index, Cardinality(items))
                seed  == << nodes'[i].x - off[1], nodes'[i].y - off[2] >>
            IN  IF IsKnown(nodes, c) THEN KnownAt(nodes, c, seed)
                ELSE seed = << dimensions'.width \div 2,
                               dimensions'.height \div 2 >>]_vars

\* the state update of handleDoubleClick at screen point p, without the
\* re-render it causes: the expansion set is updated for the node hit, and
\* the inputs, the reset count and the camera are left alone
DoubleClickExpansion(p) ==
  /\ mounted /\ ~pressed /\ gesture.kind = "none"
  /\ FindNodeAtPosition(nodes, transform, p) # NoNode
  /\ expandedClusters' =
        ToggleClusterExpansion(
          expandedClusters, nodes[FindNodeAtPosition(nodes, transform, p)])
  /\ UNCHANGED << inputs, resetTrigger, transform >>

\* a step of a pan or zoom gesture or of a node drag
PanZoomOrDragStep ==
  \/ \E p \in PointerPoints : MouseDown(p)
  \/ \E p \in PanPoints : PanMove(p) \/ TouchMove(p)
  \/ \E p \in FixedPoints : DragMove(p)
  \/ MouseUp
  \/ MouseLeave
  \/ \E p \in GesturePoints : TouchStart(p)
  \/ TouchEnd
  \/ \E p \in GesturePoints : \E zoomIn \in BOOLEAN : Wheel(p, zoomIn)
  \/ WheelEnd

\* C26: a rebuild caused by a change of records, selection, density, canvas
\* size or theme leaves the expansion set and the camera transform
\* unchanged; pan/zoom and node drag leave the expansion set and the
\* density percent unchanged; the expansion set changes only by
\* double-click or resetLayout, the camera transform only by a zoom/pan
\* gesture or resetLayout
C26_OnlyResetDiscardsLayout ==
  [][/\ inputs' # inputs =>
          expandedClusters' = expandedClusters /\ transform' = transform
     /\ (expandedClusters' # expandedClusters
           \/ densityPercent' # densityPercent) => ~PanZoomOrDragStep
     /\ expandedClusters' # expandedClusters =>
          \/ resetTrigger' # resetTrigger
          \/ \E p \in PointerPoints : DoubleClickExpansion(p)
     /\ transform' # transform =>
          \/ resetTrigger' # resetTrigger
          \/ \E p \in PanPoints : PanMove(p) \/ TouchMove(p)
          \/ \E p \in GesturePoints : \E zoomIn \in BOOLEAN :
                Wheel(p, zoomIn)]_vars

\* the theme has changed while a cluster was expanded and the camera was
\* panned or zoomed, and both are as they were
C26_Witness ==
  /\ isDarkTheme
  /\ inputChanges > 0
  /\ expandedClusters # {}
  /\ transform # ZoomIdentity

\* ------------------------------------------------------------------------
\* Click after a node drag
\* ------------------------------------------------------------------------

\* a node drag that moved its node to screen point p has finished: the
\* button is released, handleMouseUp has run, and the layout has not been
\* reset since
DragFinishedAt(p) ==
  /\ ~pressed
  /\ ~isDragging
  /\ lastDragged.moved
  /\ lastDragged.screen = p
  /\ lastDragged.resets = resetTrigger

\* C27: a click event delivered after a node drag has finished, at the point
\* where the pointer was released, is not handled: onPaperClick is not
\* called for it, whether or not Ctrl or Meta is held and whatever node is
\* under the pointer
C27_ClickAfterDragIgnored ==
  [][\A p \in PointerPoints : \A modifier \in BOOLEAN :
        (DragFinishedAt(p) /\ Click(p, modifier)) => opened' = opened]_vars

\* ------------------------------------------------------------------------
\* Drawing the edges
\* ------------------------------------------------------------------------

\* nodesRef.current.find((n) => n.id === id): the first node of ns with that
\* id, by its position in the list
FindNode(ns, id) ==
  IF \E i \in 1..Len(ns) : ns[i].id = id
  THEN CHOOSE i \in 1..Len(ns) :
          /\ ns[i].id = id
          /\ \A j \in 1..(i - 1) : ns[j].id # id
  ELSE NoNode

\* draw() can stroke the edge l over the node list ns: both endpoints are
\* found and have a position
Resolvable(ns, l) ==
  /\ FindNode(ns, l.source) # NoNode
  /\ FindNode(ns, l.target) # NoNode
  /\ ns[FindNode(ns, l.source)].x # Undef
  /\ ns[FindNode(ns, l.source)].y # Undef
  /\ ns[FindNode(ns, l.target)].x # Undef
  /\ ns[FindNode(ns, l.target)].y # Undef

\* an edge loop that ends at the first edge it cannot stroke
RECURSIVE DrawLinksUntilUnresolved(_, _)
DrawLinksUntilUnresolved(ls, ns) ==
  IF ls = << >> \/ ~Resolvable(ns, Head(ls)) THEN << >>
  ELSE << Head(ls) >> \o DrawLinksUntilUnresolved(Tail(ls), ns)

\* the edge loop of draw(): linksRef.current.forEach over ls with the node
\* list ns; an edge with a missing endpoint or position returns from its
\* callback, every other edge is stroked.  The result lists the edges
\* stroked, in order.
RECURSIVE DrawLinks(_, _)
DrawLinks(ls, ns) ==
  IF ls = << >> THEN << >>
  ELSE IF Resolvable(ns, Head(ls))
       THEN << Head(ls) >> \o DrawLinks(Tail(ls), ns)
       ELSE DrawLinks(Tail(ls), ns)

\* the node loop of draw(): the ids of the circles painted, in order; a
\* node without a position is left out
DrawNodes(ns) ==
  LET placed == SelectSeq(ns, LAMBDA n : n.x # Undef /\ n.y # Undef)
  IN  [i \in 1..Len(placed) |-> placed[i].id]

\* the node list ns without its element at position a, and with the element
\* at position b left without a position (0 stands for no element)
Damaged(ns, a, b) ==
  LET unplaced == [i \in 1..Len(ns) |->
                     IF i = b THEN [ns[i] EXCEPT !.x = Undef, !.y = Undef]
                     ELSE ns[i]]
  IN  IF a = 0 THEN unplaced
      ELSE [i \in 1..(Len(ns) - 1) |->
              IF i < a THEN unplaced[i] ELSE unplaced[i + 1]]

C29_DraggedNodeIsCurrent ==
  (isDragging /\ draggedNode # NoDrag) =>
    /\ draggedNode.live
    /\ \E i \in 1..Len(nodes) : nodes[i].id = draggedNode.id

\* ------------------------------------------------------------------------
\* Pins and pointer events
\* ------------------------------------------------------------------------

\* the node at position i of the node list is pinned
Pinned(ns, i) == ns[i].fx # Undef /\ ns[i].fy # Undef

\* C30: a mousedown on a node pins it at its position in that very step
\* (fx = x, fy = y), before any mousemove; and no step other than a change
\* of the inputs or resetLayout - in particular no mouseup, mouseleave,
\* click or double-click - leaves a node that was pinned, and is still in
\* the list, without its pin
C30_PressPinsAndNoEventUnpins ==
  [][/\ \A p \in PointerPoints :
           LET hit == FindNodeAtPosition(nodes, transform, p)
           IN  (MouseDown(p) /\ isDragging' /\ hit # NoNode) =>
                 /\ nodes'[hit].id = nodes[hit].id
                 /\ nodes'[hit].fx = nodes[hit].x
                 /\ nodes'[hit].fy = nodes[hit].y
     /\ (inputs' = inputs /\ resetTrigger' = resetTrigger) =>
           \A i \in 1..Len(nodes) : \A j \in 1..Len(nodes') :
              (nodes'[j].id = nodes[i].id /\ Pinned(nodes, i)) =>
                 Pinned(nodes', j)]_vars

\* a modifier-click on an item node, pressed and released without a move,
\* has opened its details and left it pinned where it was
C30_Witness ==
  /\ lastClick.modifier
  /\ lastClick.point = lastDragged.screen
  /\ ~lastDragged.moved
  /\ ~isDragging
  /\ opened # << >>
  /\ \E i \in 1..Len(nodes) :
        /\ nodes[i].id = lastDragged.id
        /\ nodes[i].type = "paper"
        /\ << nodes[i].fx, nodes[i].fy >> = lastDragged.at
====
